---- MODULE Spec2Model ----
(***************************************************************************)
(* Identity and session core of the todo application (FastAPI service):    *)
(* local and federated login, refresh-token rotation, password reset,      *)
(* identity linking / unlinking / merging and the admin role policy.       *)
(* The durable store (users, sessions and the token tables) is the state;   *)
(* every request handler is one action, except where a handler commits     *)
(* more than once or races with another request, where each transaction    *)
(* is a step of a request process.                                         *)
(***************************************************************************)
EXTENDS Integers, Sequences, FiniteSets, TLC

\* ------------------------------------------------------------------ bounds
MaxUsers == 3
MaxSessions == 2
MaxTime == 1
MaxResetTokens == 2
\* reset requests within the behaviours of the session specification
MaxSessionResets == 1
MaxTodos == 2
MaxProcs == 2
\* lifetimes in clock ticks (the configured durations, scaled to the clock):
\* a row is expired once the clock has passed its creation time plus the lifetime
RefreshExpiryTicks == 1
AccessExpiryTicks == 1
ResetExpiryTicks == 0
StateExpiryTicks == 1
MaxVerificationTokens == 2
VerificationExpiryTicks == 0

\* ------------------------------------------------- optional (nullable) values
None == {}
Some(v) == {v}
Val(o) == CHOOSE v \in o : TRUE

\* ------------------------------------------------------------ string helpers
LowerChar(c) ==
    CASE c = "A" -> "a" [] c = "B" -> "b" [] c = "C" -> "c" [] c = "M" -> "m"
      [] c = "O" -> "o" [] c = "P" -> "p" [] c = "S" -> "s" [] c = "X" -> "x"
      [] OTHER -> c

RECURSIVE lower(_)
lower(s) ==
    IF s = "" THEN "" ELSE LowerChar(SubSeq(s, 1, 1)) \o lower(SubSeq(s, 2, Len(s)))

RECURSIVE lstrip(_)
lstrip(s) ==
    IF s # "" /\ SubSeq(s, 1, 1) = " " THEN lstrip(SubSeq(s, 2, Len(s))) ELSE s

RECURSIVE rstrip(_)
rstrip(s) ==
    IF s # "" /\ SubSeq(s, Len(s), Len(s)) = " " THEN rstrip(SubSeq(s, 1, Len(s) - 1)) ELSE s

strip(s) == rstrip(lstrip(s))

\* python: needle in haystack
Contains(haystack, needle) ==
    \E i \in 1..(Len(haystack) + 1) :
        /\ i + Len(needle) - 1 <= Len(haystack)
        /\ SubSeq(haystack, i, i + Len(needle) - 1) = needle

\* normalized_username = email.lower().strip()
Normalize(email) == strip(lower(email))

\* -------------------------------------------------------------------- state
VARIABLES
    users,          \* table users: id -> row
    sessions,       \* table refresh_token_sessions: id -> row
    reset_tokens,   \* table password_reset_tokens: id -> row
    verification_tokens, \* table email_verification_tokens: id -> row
    todos,          \* table todos: id -> row
    now,            \* wall clock
    nextUid,        \* next fresh uuid4 for a user row
    nextSid,        \* next fresh uuid4 for a session row
    nextRst,        \* next fresh random reset token
    issuedRefresh,  \* refresh tokens handed to clients
    issuedAccess,   \* per user id: the access token issued last
    rotated,        \* history: refresh tokens on which a rotation succeeded
    preReset,       \* history: refresh tokens issued to a user before a successful reset
    resp,           \* the response of the last request
    procs           \* in-flight requests (multi-transaction handlers)

vars == <<users, sessions, reset_tokens, verification_tokens, todos, now, nextUid, nextSid, nextRst,
          issuedRefresh, issuedAccess, rotated, preReset, resp, procs>>

Roles == {"guest", "admin", "sysadmin"}

UserIds == 1..MaxUsers

\* ------------------------------------------------------------ PasswordService
hash_password(password) == [argon2 |-> password]

verify_password(password_hash, password) == password_hash.argon2 = password

weak_passwords == {"password", "12345678", "qwerty", "abc123"}

validate_password_strength(password, email) ==
    LET e1 == IF Len(password) < 8
              THEN <<"Password must be at least 8 characters long">> ELSE <<>>
        e2 == IF Len(password) > 128
              THEN <<"Password must be at most 128 characters long">> ELSE <<>>
        e3 == IF email # "" /\ Contains(lower(password), lower(email))
              THEN <<"Password cannot contain your email address">> ELSE <<>>
        e4 == IF lower(password) \in weak_passwords
              THEN <<"Password is too common">> ELSE <<>>
        errors == e1 \o e2 \o e3 \o e4
    IN [isValid |-> Len(errors) = 0, errors |-> errors]

\* ----------------------------------------------------------------- JWTService
JWT_ACCESS_SECRET == "access-secret"

JWT_REFRESH_SECRET == "refresh-secret"

jwt_encode(payload, key) == [payload |-> payload, key |-> key]

\* (fault) the signature is not checked
jwt_decode_ok_any_key(token, key) == token.payload.exp > now

\* jwt.decode succeeds iff the signature verifies under the key and exp has not passed
jwt_decode_ok(token, key) == token.key = key /\ token.payload.exp > now

generate_access_token(user_id, email, role) ==
    jwt_encode([sub |-> user_id, email |-> email, role |-> role,
                iat |-> now, exp |-> now + AccessExpiryTicks], JWT_ACCESS_SECRET)

generate_refresh_token(user_id, session_id) ==
    jwt_encode([sub |-> user_id, sessionId |-> session_id,
                iat |-> now, exp |-> now + RefreshExpiryTicks], JWT_REFRESH_SECRET)

\* generate_refresh_token called when the clock reads time
generate_refresh_token_at(time, user_id, session_id) ==
    jwt_encode([sub |-> user_id, sessionId |-> session_id,
                iat |-> time, exp |-> time + RefreshExpiryTicks], JWT_REFRESH_SECRET)

verify_access_token(token) == jwt_decode_ok(token, JWT_ACCESS_SECRET)

verify_refresh_token(token) == jwt_decode_ok(token, JWT_REFRESH_SECRET)

\* jwt.decode: the signature is checked first, then exp; the payload is returned
jwt_decode(token, key) ==
    IF ~jwt_decode_ok(token, key)
    THEN [ok |-> FALSE,
          error |-> IF token.key # key THEN "InvalidTokenError" ELSE "ExpiredSignatureError",
          payload |-> None]
    ELSE [ok |-> TRUE, error |-> "", payload |-> Some(token.payload)]

\* ---------------------------------------------------------- OAuthStateService
API_SERVER_OAUTH_KEY == "oauth-state-key"

\* create_state with the clock reading time
create_state_at(time, redirect, frontend, mode, current_user_id) ==
    jwt_encode([redirect |-> redirect, frontend |-> frontend, mode |-> mode,
                current_user_id |-> current_user_id,
                iat |-> time, exp |-> time + StateExpiryTicks], API_SERVER_OAUTH_KEY)

create_state(redirect, frontend, mode, current_user_id) ==
    create_state_at(now, redirect, frontend, mode, current_user_id)

\* (fault) the state is read without verifying its signature or its expiry
verify_state_unverified(state) == [status |-> 0, detail |-> "", state |-> Some(state.payload)]

\* verify_state: 0 and the decoded state, or the status of the HTTPException
verify_state(state) ==
    LET decoded == jwt_decode(state, API_SERVER_OAUTH_KEY)
    IN IF decoded.ok THEN [status |-> 0, detail |-> "", state |-> decoded.payload]
       ELSE [status |-> 400,
             detail |-> IF decoded.error = "ExpiredSignatureError"
                        THEN "OAuth state has expired" ELSE "Invalid OAuth state",
             state |-> None]

_hash_token(token) == [sha256 |-> token]

\* a refresh token signed by somebody who does not hold the refresh key
ForgedRefresh ==
    jwt_encode([sub |-> 1, sessionId |-> 1, iat |-> 0, exp |-> MaxTime + 1], "attacker-key")

\* an access token an attacker signs with a key of their own
ForgedAccess ==
    jwt_encode([sub |-> 1, email |-> "a@x.com", role |-> "sysadmin",
                iat |-> 0, exp |-> MaxTime + 1], "attacker-key")

\* ------------------------------------------------------------------ User row
\* derived e-mail: first non-null of local_username, google_email, ms_email
email(user) ==
    IF user.local_username # None THEN Val(user.local_username)
    ELSE IF user.google_email # None THEN Val(user.google_email)
    ELSE IF user.ms_email # None THEN Val(user.ms_email)
    ELSE ""

LocalUser(username, full_name, password, role, verified_at) ==
    [ full_name |-> full_name, role |-> role, email_verified_at |-> verified_at,
      local_enabled |-> TRUE, local_username |-> Some(username),
      local_password_hash |-> Some(hash_password(password)),
      google_sub |-> None, google_email |-> None,
      ms_oid |-> None, ms_tid |-> None, ms_email |-> None ]

\* todos.owner_id: ON DELETE CASCADE from users.id
CascadeTodos(table, keep) ==
    [k \in {i \in DOMAIN table : table[i].owner_id \in keep} |-> table[k]]

\* ON DELETE CASCADE from users.id
CascadeRows_none(table, keep) == table

CascadeRows(table, keep) == [k \in {i \in DOMAIN table : table[i].user_id \in keep} |-> table[k]]

\* ---------------------------------------------------------------- responses
Response(op, status, detail) == [op |-> op, status |-> status, detail |-> detail]

\* HTTPBearer + get_current_user + get_current_active_user:
\* 0 when the caller is admitted, else the status of the rejection
AuthStatus(credentials) ==
    IF credentials = None THEN 403
    ELSE IF ~verify_access_token(Val(credentials)) THEN 401
    ELSE IF Val(credentials).payload.sub \notin DOMAIN users THEN 401
    ELSE IF users[Val(credentials).payload.sub].email_verified_at = None THEN 403
    ELSE 0

Credentials == {None} \cup {issuedAccess[u] : u \in UserIds}

\* --------------------------------------------------------- session handling
StoreUnchanged == UNCHANGED <<users, sessions, reset_tokens, verification_tokens, nextUid, nextSid, nextRst>>

ClientUnchanged == UNCHANGED <<issuedRefresh, issuedAccess>>

HistoryUnchanged == UNCHANGED <<rotated, preReset>>

\* the notion of a usable session the properties are stated with:
\* revoked_at IS NULL and now() < expires_at
SessionUsable(s) == s.revoked_at = None /\ now < s.expires_at

\* the presented refresh token belongs to a usable session
TokenUsable(refresh_token) ==
    \E s \in DOMAIN sessions :
        /\ sessions[s].refresh_token_hash = _hash_token(refresh_token)
        /\ SessionUsable(sessions[s])

\* refresh_token_hash="" : the value of the column before the token exists;
\* it is the hash of no token
placeholder_hash ==
    _hash_token(jwt_encode([sub |-> 0, sessionId |-> 0, iat |-> 0, exp |-> 0], ""))

\* _create_auth_response: the row flushed to obtain the session id
flushed_session(user_id) ==
    [ user_id |-> user_id,
      refresh_token_hash |-> placeholder_hash,
      expires_at |-> now + RefreshExpiryTicks,
      revoked_at |-> None ]

\* (fault) the row is committed as it was flushed
new_session_as_flushed(user_id) == flushed_session(user_id)

\* _create_auth_response: the row committed for the new session
new_session(user_id) ==
    [flushed_session(user_id) EXCEPT
        !.refresh_token_hash = _hash_token(generate_refresh_token(user_id, nextSid))]

\* _create_auth_response: session row, token pair; the tokens reach the client
CreateAuthResponse(user_id, user, table) ==
    /\ nextSid <= MaxSessions
    /\ sessions' = table @@ (nextSid :> new_session(user_id))
    /\ nextSid' = nextSid + 1
    /\ issuedRefresh' = issuedRefresh \cup {generate_refresh_token(user_id, nextSid)}
    /\ issuedAccess' = [issuedAccess EXCEPT ![user_id] =
           Some(generate_access_token(user_id, email(user), user.role))]

\* (fault) the rotation forgets to mark the presented session revoked
revoke_session_skipped(table, sid) == table

\* refresh_access_token: session_obj.revoked_at = now; commit
revoke_session(table, sid) == [table EXCEPT ![sid].revoked_at = Some(now)]

\* (fault) the reset revokes only sessions that were created at the time of the reset
revoke_all_sessions_partial(table, user_id) ==
    [s \in DOMAIN table |->
        IF table[s].user_id = user_id /\ table[s].expires_at = now + RefreshExpiryTicks
        THEN [table[s] EXCEPT !.revoked_at = Some(now)] ELSE table[s]]

\* reset_password: every session row of the user gets revoked_at = now
revoke_all_sessions(table, user_id) ==
    [s \in DOMAIN table |->
        IF table[s].user_id = user_id
        THEN [table[s] EXCEPT !.revoked_at = Some(now)] ELSE table[s]]

\* (fault) login looks at email_verified_at before it verifies the password
Login_verified_first(login_email, password) ==
    LET normalized_username == Normalize(login_email)
        found == {u \in DOMAIN users : users[u].local_username = Some(normalized_username)}
        uid == CHOOSE u \in found : TRUE
        Fail(status, detail) ==
            /\ resp' = [Response("login", status, detail) EXCEPT !.op = "login"]
                         @@ [user |-> None, refresh |-> None]
            /\ StoreUnchanged /\ ClientUnchanged
    IN
    /\ IF found = {} THEN Fail(401, "Invalid credentials")
       ELSE IF users[uid].email_verified_at = None
            THEN Fail(403, "Please verify your email address before logging in")
       ELSE IF ~users[uid].local_enabled
            THEN Fail(401, "Local authentication is disabled for this user")
       ELSE IF users[uid].local_password_hash = None THEN Fail(401, "Invalid credentials")
       ELSE IF ~verify_password(Val(users[uid].local_password_hash), password)
            THEN Fail(401, "Invalid credentials")
       ELSE IF users[uid].email_verified_at = None
            THEN Fail(403, "Please verify your email address before logging in")
       ELSE /\ CreateAuthResponse(uid, users[uid], sessions)
            /\ resp' = Response("login", 200, "") @@
                       [user |-> Some(uid),
                        refresh |-> Some(generate_refresh_token(uid, nextSid))]
            /\ UNCHANGED <<users, reset_tokens, verification_tokens, nextUid, nextRst>>
    /\ HistoryUnchanged
    /\ UNCHANGED <<todos, now, procs>>

\* AuthService.login
Login(login_email, password) ==
    LET normalized_username == Normalize(login_email)
        found == {u \in DOMAIN users : users[u].local_username = Some(normalized_username)}
        uid == CHOOSE u \in found : TRUE
        Fail(status, detail) ==
            /\ resp' = [Response("login", status, detail) EXCEPT !.op = "login"]
                         @@ [user |-> None, refresh |-> None]
            /\ StoreUnchanged /\ ClientUnchanged
    IN
    /\ IF found = {} THEN Fail(401, "Invalid credentials")
       ELSE IF ~users[uid].local_enabled
            THEN Fail(401, "Local authentication is disabled for this user")
       ELSE IF users[uid].local_password_hash = None THEN Fail(401, "Invalid credentials")
       ELSE IF ~verify_password(Val(users[uid].local_password_hash), password)
            THEN Fail(401, "Invalid credentials")
       ELSE IF users[uid].email_verified_at = None
            THEN Fail(403, "Please verify your email address before logging in")
       ELSE /\ CreateAuthResponse(uid, users[uid], sessions)
            /\ resp' = Response("login", 200, "") @@
                       [user |-> Some(uid),
                        refresh |-> Some(generate_refresh_token(uid, nextSid))]
            /\ UNCHANGED <<users, reset_tokens, verification_tokens, nextUid, nextRst>>
    /\ HistoryUnchanged
    /\ UNCHANGED <<todos, now, procs>>

\* AuthService.login that succeeds while the clock advances inside
\* _create_auth_response: expires_at is computed from the earlier reading and
\* the refresh token is generated from the later one
LoginAcrossTick(login_email, password) ==
    LET normalized_username == Normalize(login_email)
        found == {u \in DOMAIN users : users[u].local_username = Some(normalized_username)}
        uid == CHOOSE u \in found : TRUE
        refresh_token == generate_refresh_token_at(now + 1, uid, nextSid)
    IN
    /\ now < MaxTime
    /\ found # {}
    /\ users[uid].local_enabled
    /\ users[uid].local_password_hash # None
    /\ verify_password(Val(users[uid].local_password_hash), password)
    /\ users[uid].email_verified_at # None
    /\ nextSid <= MaxSessions
    /\ sessions' = sessions @@
          (nextSid :> [flushed_session(uid) EXCEPT
                          !.refresh_token_hash = _hash_token(refresh_token)])
    /\ nextSid' = nextSid + 1
    /\ issuedRefresh' = issuedRefresh \cup {refresh_token}
    /\ issuedAccess' = [issuedAccess EXCEPT ![uid] =
           Some(generate_access_token(uid, email(users[uid]), users[uid].role))]
    /\ now' = now + 1
    /\ resp' = Response("login", 200, "") @@
               [user |-> Some(uid), refresh |-> Some(refresh_token)]
    /\ UNCHANGED <<users, reset_tokens, verification_tokens, nextUid, nextRst>>
    /\ HistoryUnchanged
    /\ UNCHANGED <<todos, procs>>

\* (fault) the replay of a revoked token revokes every session of its user
Refresh_revoke_family(refresh_token) ==
    LET token_hash == _hash_token(refresh_token)
        found == {s \in DOMAIN sessions : sessions[s].refresh_token_hash = token_hash}
        sid == CHOOSE s \in found : TRUE
        user_id == refresh_token.payload.sub
        ghost == [token |-> refresh_token, reused |-> refresh_token \in rotated,
                  usable |-> TokenUsable(refresh_token)]
        Fail(detail) ==
            /\ resp' = Response("refresh", 401, detail) @@ ghost @@ [refresh |-> None]
            /\ StoreUnchanged /\ ClientUnchanged
            /\ UNCHANGED rotated
    IN
    /\ IF ~verify_refresh_token(refresh_token) THEN Fail("Invalid refresh token")
       ELSE IF found = {} THEN Fail("Invalid refresh token")
       ELSE IF sessions[sid].revoked_at # None
            THEN /\ resp' = Response("refresh", 401, "Refresh token has been revoked")
                            @@ ghost @@ [refresh |-> None]
                 /\ sessions' = revoke_all_sessions(sessions, sessions[sid].user_id)
                 /\ UNCHANGED <<users, reset_tokens, verification_tokens>>
                 /\ UNCHANGED <<nextUid, nextSid, nextRst>>
                 /\ ClientUnchanged
                 /\ UNCHANGED rotated
       ELSE IF now > sessions[sid].expires_at THEN Fail("Refresh token has expired")
       ELSE IF user_id \notin DOMAIN users THEN Fail("User not found")
       ELSE /\ CreateAuthResponse(user_id, users[user_id], revoke_session(sessions, sid))
            /\ resp' = Response("refresh", 200, "") @@ ghost @@
                       [refresh |-> Some(generate_refresh_token(user_id, nextSid))]
            /\ rotated' = rotated \cup {refresh_token}
            /\ UNCHANGED <<users, reset_tokens, verification_tokens, nextUid, nextRst>>
    /\ UNCHANGED <<todos, preReset, now, procs>>

\* AuthService.refresh_access_token
Refresh(refresh_token) ==
    LET token_hash == _hash_token(refresh_token)
        found == {s \in DOMAIN sessions : sessions[s].refresh_token_hash = token_hash}
        sid == CHOOSE s \in found : TRUE
        user_id == refresh_token.payload.sub
        ghost == [token |-> refresh_token, reused |-> refresh_token \in rotated,
                  usable |-> TokenUsable(refresh_token)]
        Fail(detail) ==
            /\ resp' = Response("refresh", 401, detail) @@ ghost @@ [refresh |-> None]
            /\ StoreUnchanged /\ ClientUnchanged
            /\ UNCHANGED rotated
    IN
    /\ IF ~verify_refresh_token(refresh_token) THEN Fail("Invalid refresh token")
       ELSE IF found = {} THEN Fail("Invalid refresh token")
       ELSE IF sessions[sid].revoked_at # None THEN Fail("Refresh token has been revoked")
       ELSE IF now > sessions[sid].expires_at THEN Fail("Refresh token has expired")
       ELSE IF user_id \notin DOMAIN users THEN Fail("User not found")
       ELSE /\ CreateAuthResponse(user_id, users[user_id], revoke_session(sessions, sid))
            /\ resp' = Response("refresh", 200, "") @@ ghost @@
                       [refresh |-> Some(generate_refresh_token(user_id, nextSid))]
            /\ rotated' = rotated \cup {refresh_token}
            /\ UNCHANGED <<users, reset_tokens, verification_tokens, nextUid, nextRst>>
    /\ UNCHANGED <<todos, preReset, now, procs>>

\* POST /auth/logout -> AuthService.logout
Logout(credentials, refresh_token) ==
    LET token_hash == _hash_token(refresh_token)
        found == {s \in DOMAIN sessions : sessions[s].refresh_token_hash = token_hash}
        sid == CHOOSE s \in found : TRUE
    IN
    /\ IF AuthStatus(credentials) # 0
       THEN /\ resp' = Response("logout", AuthStatus(credentials), "") @@ [token |-> refresh_token]
            /\ UNCHANGED sessions
       ELSE /\ resp' = Response("logout", 200, "Logged out successfully") @@ [token |-> refresh_token]
            /\ sessions' = IF found = {} THEN sessions ELSE revoke_session(sessions, sid)
    /\ UNCHANGED <<users, reset_tokens, verification_tokens, nextUid, nextSid, nextRst>>
    /\ ClientUnchanged /\ HistoryUnchanged
    /\ UNCHANGED <<todos, now, procs>>

\* the random token generated by the n-th password-reset request
ResetSecret(n) == <<"reset-token", n>>

\* (fault) a reset request keeps the tokens issued before
delete_old_tokens_kept(table, user_id) == table

\* request_password_reset: the user's old reset tokens are deleted
delete_old_tokens(table, user_id) ==
    [k \in {i \in DOMAIN table : table[i].user_id # user_id} |-> table[k]]

\* (fault) a reset request for an identifier without a local account is answered 404
RequestPasswordReset_reveals(request_email) ==
    LET normalized_username == Normalize(request_email)
        found == {u \in DOMAIN users : users[u].local_username = Some(normalized_username)}
        uid == CHOOSE u \in found : TRUE
    IN
    /\ IF found = {} \/ ~users[uid].local_enabled
       THEN /\ resp' = Response("request_password_reset", 404, "User not found")
            /\ UNCHANGED <<reset_tokens, nextRst>>
       ELSE /\ nextRst <= MaxResetTokens
            /\ resp' = Response("request_password_reset", 200, "Password reset request processed")
            /\ reset_tokens' =
                 delete_old_tokens(reset_tokens, uid)
                 @@ (nextRst :> [ user_id |-> uid,
                                  token_hash |-> _hash_token(ResetSecret(nextRst)),
                                  expires_at |-> now + ResetExpiryTicks,
                                  used_at |-> None ])
            /\ nextRst' = nextRst + 1
    /\ UNCHANGED verification_tokens
    /\ UNCHANGED <<users, sessions, nextUid, nextSid>>
    /\ ClientUnchanged /\ HistoryUnchanged
    /\ UNCHANGED <<todos, now, procs>>

\* AuthService.request_password_reset
RequestPasswordReset(request_email) ==
    LET normalized_username == Normalize(request_email)
        found == {u \in DOMAIN users : users[u].local_username = Some(normalized_username)}
        uid == CHOOSE u \in found : TRUE
    IN
    /\ IF found = {} \/ ~users[uid].local_enabled
       THEN UNCHANGED <<reset_tokens, nextRst>>
       ELSE /\ nextRst <= MaxResetTokens
            /\ reset_tokens' =
                 delete_old_tokens(reset_tokens, uid)
                 @@ (nextRst :> [ user_id |-> uid,
                                  token_hash |-> _hash_token(ResetSecret(nextRst)),
                                  expires_at |-> now + ResetExpiryTicks,
                                  used_at |-> None ])
            /\ nextRst' = nextRst + 1
    /\ resp' = Response("request_password_reset", 200, "Password reset request processed")
    /\ UNCHANGED verification_tokens
    /\ UNCHANGED <<users, sessions, nextUid, nextSid>>
    /\ ClientUnchanged /\ HistoryUnchanged
    /\ UNCHANGED <<todos, now, procs>>

\* (fault) a reset leaves its token unused
ResetPassword_reusable(token, new_password) ==
    LET token_hash == _hash_token(token)
        found == {t \in DOMAIN reset_tokens :
                     /\ reset_tokens[t].token_hash = token_hash
                     /\ reset_tokens[t].used_at = None}
        tid == CHOOSE t \in found : TRUE
        uid == reset_tokens[tid].user_id
        Fail(detail) ==
            /\ resp' = Response("reset_password", 400, detail) @@ [user |-> None, token |-> token]
            /\ UNCHANGED <<users, sessions, reset_tokens, preReset>>
    IN
    /\ IF found = {} THEN Fail("Invalid or expired reset token")
       ELSE IF now > reset_tokens[tid].expires_at THEN Fail("Reset token has expired")
       ELSE IF uid \notin DOMAIN users THEN Fail("User not found")
       ELSE IF ~validate_password_strength(new_password, email(users[uid])).isValid
            THEN Fail("Password does not meet security requirements")
       ELSE /\ users' = [users EXCEPT ![uid].local_password_hash =
                                          Some(hash_password(new_password))]
            /\ reset_tokens' = reset_tokens
            /\ sessions' = revoke_all_sessions(sessions, uid)
            /\ preReset' = preReset \cup {t \in issuedRefresh : t.payload.sub = uid}
            /\ resp' = Response("reset_password", 200, "Password reset successfully")
                       @@ [user |-> Some(uid), token |-> token]
    /\ UNCHANGED <<verification_tokens, nextUid, nextSid, nextRst, rotated>>
    /\ ClientUnchanged
    /\ UNCHANGED <<todos, now, procs>>

\* AuthService.reset_password
ResetPassword(token, new_password) ==
    LET token_hash == _hash_token(token)
        found == {t \in DOMAIN reset_tokens :
                     /\ reset_tokens[t].token_hash = token_hash
                     /\ reset_tokens[t].used_at = None}
        tid == CHOOSE t \in found : TRUE
        uid == reset_tokens[tid].user_id
        Fail(detail) ==
            /\ resp' = Response("reset_password", 400, detail) @@ [user |-> None, token |-> token]
            /\ UNCHANGED <<users, sessions, reset_tokens, preReset>>
    IN
    /\ IF found = {} THEN Fail("Invalid or expired reset token")
       ELSE IF now > reset_tokens[tid].expires_at THEN Fail("Reset token has expired")
       ELSE IF uid \notin DOMAIN users THEN Fail("User not found")
       ELSE IF ~validate_password_strength(new_password, email(users[uid])).isValid
            THEN Fail("Password does not meet security requirements")
       ELSE /\ users' = [users EXCEPT ![uid].local_password_hash =
                                          Some(hash_password(new_password))]
            /\ reset_tokens' = [reset_tokens EXCEPT ![tid].used_at = Some(now)]
            /\ sessions' = revoke_all_sessions(sessions, uid)
            /\ preReset' = preReset \cup {t \in issuedRefresh : t.payload.sub = uid}
            /\ resp' = Response("reset_password", 200, "Password reset successfully")
                       @@ [user |-> Some(uid), token |-> token]
    /\ UNCHANGED <<verification_tokens, nextUid, nextSid, nextRst, rotated>>
    /\ ClientUnchanged
    /\ UNCHANGED <<todos, now, procs>>

\* (fault) a repeated call marks the token and the user again
VerifyEmail_again(token) ==
    LET token_hash == _hash_token(token)
        found == {t \in DOMAIN verification_tokens :
                     verification_tokens[t].token_hash = token_hash}
        tid == CHOOSE t \in found : TRUE
        uid == verification_tokens[tid].user_id
        Fail(detail) ==
            /\ resp' = Response("verify_email", 400, detail)
            /\ UNCHANGED <<users, verification_tokens>>
    IN
    /\ IF found = {} THEN Fail("Invalid verification token")
       ELSE IF now > verification_tokens[tid].expires_at
       THEN Fail("Verification token has expired")
       ELSE /\ verification_tokens' =
                  [verification_tokens EXCEPT ![tid].verified_at = Some(now)]
            /\ users' = IF uid \in DOMAIN users
                        THEN [users EXCEPT ![uid].email_verified_at = Some(now)]
                        ELSE users
            /\ resp' = Response("verify_email", 200, "Email verified successfully")
    /\ UNCHANGED <<sessions, reset_tokens, nextUid, nextSid, nextRst>>
    /\ ClientUnchanged /\ HistoryUnchanged
    /\ UNCHANGED <<todos, now, procs>>

\* AuthService.verify_email
VerifyEmail(token) ==
    LET token_hash == _hash_token(token)
        found == {t \in DOMAIN verification_tokens :
                     verification_tokens[t].token_hash = token_hash}
        tid == CHOOSE t \in found : TRUE
        uid == verification_tokens[tid].user_id
        Fail(detail) ==
            /\ resp' = Response("verify_email", 400, detail)
            /\ UNCHANGED <<users, verification_tokens>>
    IN
    /\ IF found = {} THEN Fail("Invalid verification token")
       ELSE IF now > verification_tokens[tid].expires_at
       THEN Fail("Verification token has expired")
       ELSE IF verification_tokens[tid].verified_at # None
       THEN /\ resp' = Response("verify_email", 200, "Email is already verified")
            /\ UNCHANGED <<users, verification_tokens>>
       ELSE /\ verification_tokens' =
                  [verification_tokens EXCEPT ![tid].verified_at = Some(now)]
            /\ users' = IF uid \in DOMAIN users
                        THEN [users EXCEPT ![uid].email_verified_at = Some(now)]
                        ELSE users
            /\ resp' = Response("verify_email", 200, "Email verified successfully")
    /\ UNCHANGED <<sessions, reset_tokens, nextUid, nextSid, nextRst>>
    /\ ClientUnchanged /\ HistoryUnchanged
    /\ UNCHANGED <<todos, now, procs>>

\* the random token of the n-th verification e-mail
VerificationSecret(n) == <<"verification-token", n>>

\* the verification e-mail the sibling API sends after a registration without
\* autoverify: the token row is committed, the token goes to the mailbox
SendVerificationEmail(n, user_id) ==
    /\ n \notin DOMAIN verification_tokens
    /\ \A k \in DOMAIN verification_tokens : k < n
    /\ user_id \in DOMAIN users
    /\ users[user_id].email_verified_at = None
    /\ verification_tokens' = verification_tokens @@
          (n :> [ user_id |-> user_id,
                  token_hash |-> _hash_token(VerificationSecret(n)),
                  expires_at |-> now + VerificationExpiryTicks,
                  verified_at |-> None ])
    /\ resp' = Response("send_verification_email", 0, "")
    /\ UNCHANGED <<users, sessions, reset_tokens, nextUid, nextSid, nextRst>>
    /\ ClientUnchanged /\ HistoryUnchanged
    /\ UNCHANGED <<todos, now, procs>>

\* DELETE /me: the user row goes, its sessions and tokens go with it
DeleteAccount(credentials) ==
    LET uid == Val(credentials).payload.sub
        keep == DOMAIN users \ {uid}
    IN
    /\ IF AuthStatus(credentials) # 0
       THEN /\ resp' = Response("delete_account", AuthStatus(credentials), "")
            /\ UNCHANGED <<users, sessions, reset_tokens, verification_tokens, todos>>
       ELSE /\ resp' = Response("delete_account", 204, "")
            /\ users' = [u \in keep |-> users[u]]
            /\ sessions' = CascadeRows(sessions, keep)
            /\ reset_tokens' = CascadeRows(reset_tokens, keep)
            /\ verification_tokens' = CascadeRows(verification_tokens, keep)
            /\ todos' = CascadeTodos(todos, keep)
    /\ UNCHANGED <<nextUid, nextSid, nextRst>>
    /\ ClientUnchanged /\ HistoryUnchanged
    /\ UNCHANGED <<now, procs>>

\* time passes
Tick ==
    /\ now < MaxTime
    /\ now' = now + 1
    /\ UNCHANGED <<users, sessions, reset_tokens, verification_tokens, todos, nextUid, nextSid, nextRst,
                   issuedRefresh, issuedAccess, rotated, preReset, resp, procs>>

\* ------------------------------------------------------- identity store
\* Python truthiness of an optional string: neither None nor empty
Truthy(o) == o # None /\ Val(o) # ""

HasLocal(user) == user.local_enabled /\ Truthy(user.local_username)

HasGoogle(user) == Truthy(user.google_sub)

HasMicrosoft(user) == Truthy(user.ms_oid) /\ Truthy(user.ms_tid)

\* (fault) the schema lacks the unique constraint on local_username
UniqueOK_no_username(table) ==
    \A u, v \in DOMAIN table :
        u # v =>
          /\ ~(table[u].google_sub # None /\ table[u].google_sub = table[v].google_sub)
          /\ ~(/\ table[u].ms_tid # None /\ table[u].ms_oid # None
               /\ table[u].ms_tid = table[v].ms_tid /\ table[u].ms_oid = table[v].ms_oid)

\* users_local_username_unique, users_google_sub_unique, users_ms_identity_unique:
\* the store accepts a commit only if the users table satisfies the three constraints
UniqueOK(table) ==
    \A u, v \in DOMAIN table :
        u # v =>
          /\ ~(table[u].local_username # None
               /\ table[u].local_username = table[v].local_username)
          /\ ~(table[u].google_sub # None /\ table[u].google_sub = table[v].google_sub)
          /\ ~(/\ table[u].ms_tid # None /\ table[u].ms_oid # None
               /\ table[u].ms_tid = table[v].ms_tid /\ table[u].ms_oid = table[v].ms_oid)

\* register: the row built for the new user
RegisteredUser(dto) ==
    [ full_name |-> strip(dto.full_name), role |-> dto.role,
      email_verified_at |-> IF dto.autoverify THEN Some(now) ELSE None,
      local_enabled |-> TRUE, local_username |-> Some(Normalize(dto.email)),
      local_password_hash |-> Some(hash_password(dto.password)),
      google_sub |-> None, google_email |-> None,
      ms_oid |-> None, ms_tid |-> None, ms_email |-> None ]

\* (fault) a first-time Google login is linked to the local user whose
\* username is the e-mail the provider reports
GoogleUser_linked_by_email(google_sub, google_email, full_name) ==
    [ full_name |-> full_name, role |-> "guest", email_verified_at |-> Some(now),
      local_enabled |-> TRUE, local_username |-> Some(google_email), local_password_hash |-> None,
      google_sub |-> Some(google_sub), google_email |-> Some(google_email),
      ms_oid |-> None, ms_tid |-> None, ms_email |-> None ]

\* login_with_google: the row built for a first-time Google login
GoogleUser(google_sub, google_email, full_name) ==
    [ full_name |-> full_name, role |-> "guest", email_verified_at |-> Some(now),
      local_enabled |-> FALSE, local_username |-> None, local_password_hash |-> None,
      google_sub |-> Some(google_sub), google_email |-> Some(google_email),
      ms_oid |-> None, ms_tid |-> None, ms_email |-> None ]

\* login_with_microsoft: the row built for a first-time Microsoft login
MicrosoftUser(ms_oid, ms_tid, ms_email, full_name) ==
    [ full_name |-> full_name, role |-> "guest", email_verified_at |-> Some(now),
      local_enabled |-> FALSE, local_username |-> None, local_password_hash |-> None,
      google_sub |-> None, google_email |-> None,
      ms_oid |-> Some(ms_oid), ms_tid |-> Some(ms_tid), ms_email |-> Some(ms_email) ]

ByUsername(table, username) == {u \in DOMAIN table : table[u].local_username = Some(username)}

\* (fault) the lookup by google_sub finds nobody
ByGoogleSub_nobody(table, google_sub) == {}

ByGoogleSub(table, google_sub) == {u \in DOMAIN table : table[u].google_sub = Some(google_sub)}

ByMicrosoft(table, ms_oid, ms_tid) ==
    {u \in DOMAIN table : table[u].ms_oid = Some(ms_oid) /\ table[u].ms_tid = Some(ms_tid)}

SessionsUnchanged == UNCHANGED <<sessions, nextSid, issuedRefresh, issuedAccess>>

\* what no handler of the identity store touches
AccountFrame == UNCHANGED <<todos, reset_tokens, verification_tokens, nextRst, rotated, preReset, now, procs>>

\* AuthService.register
Register(dto) ==
    LET normalized_username == Normalize(dto.email)
        validation == validate_password_strength(dto.password, normalized_username)
        inserted == users @@ (nextUid :> RegisteredUser(dto))
        Fail(status, detail) ==
            /\ resp' = Response("register", status, detail)
            /\ UNCHANGED <<users, nextUid>>
    IN
    /\ IF ~validation.isValid
       THEN Fail(400, "Password does not meet security requirements")
       ELSE IF ByUsername(users, normalized_username) # {}
       THEN Fail(409, "User with this username already exists")
       ELSE /\ nextUid <= MaxUsers
            /\ IF ~UniqueOK(inserted) THEN Fail(500, "IntegrityError")
               ELSE /\ users' = inserted
                    /\ nextUid' = nextUid + 1
                    /\ resp' = Response("register", 201, "")
    /\ SessionsUnchanged /\ AccountFrame

\* AuthService.login_with_google; via is what the OAuth callback adds to the answer
login_with_google(via, google_sub, google_email, full_name) ==
    LET Reply(op, status, detail) ==
            IF via = None THEN Response(op, status, detail)
            ELSE Response(op, status, detail) @@ Val(via)
        found == ByGoogleSub(users, google_sub)
        uid == CHOOSE u \in found : TRUE
        inserted == users @@ (nextUid :> GoogleUser(google_sub, google_email, full_name))
    IN
    /\ IF found # {}
       THEN /\ users' = [users EXCEPT ![uid].google_email = Some(google_email)]
            /\ UNCHANGED nextUid
            /\ CreateAuthResponse(uid, [users[uid] EXCEPT !.google_email = Some(google_email)],
                                  sessions)
            /\ resp' = Reply("login_with_google", 200, "")
       ELSE /\ nextUid <= MaxUsers
            /\ IF ~UniqueOK(inserted)
               THEN /\ resp' = Reply("login_with_google", 500, "IntegrityError")
                    /\ UNCHANGED <<users, nextUid>>
                    /\ SessionsUnchanged
               ELSE /\ users' = inserted
                    /\ nextUid' = nextUid + 1
                    /\ CreateAuthResponse(nextUid, inserted[nextUid], sessions)
                    /\ resp' = Reply("login_with_google", 200, "")
    /\ AccountFrame

\* login_with_google answered directly
LoginWithGoogle(google_sub, google_email, full_name) ==
    login_with_google(None, google_sub, google_email, full_name)

\* AuthService.login_with_microsoft
LoginWithMicrosoft(ms_oid, ms_tid, ms_email, full_name) ==
    LET found == ByMicrosoft(users, ms_oid, ms_tid)
        uid == CHOOSE u \in found : TRUE
        inserted == users @@ (nextUid :> MicrosoftUser(ms_oid, ms_tid, ms_email, full_name))
    IN
    /\ IF found # {}
       THEN /\ users' = [users EXCEPT ![uid].ms_email = Some(ms_email)]
            /\ UNCHANGED nextUid
            /\ CreateAuthResponse(uid, [users[uid] EXCEPT !.ms_email = Some(ms_email)], sessions)
            /\ resp' = Response("login_with_microsoft", 200, "")
       ELSE /\ nextUid <= MaxUsers
            /\ IF ~UniqueOK(inserted)
               THEN /\ resp' = Response("login_with_microsoft", 500, "IntegrityError")
                    /\ UNCHANGED <<users, nextUid>>
                    /\ SessionsUnchanged
               ELSE /\ users' = inserted
                    /\ nextUid' = nextUid + 1
                    /\ CreateAuthResponse(nextUid, inserted[nextUid], sessions)
                    /\ resp' = Response("login_with_microsoft", 200, "")
    /\ AccountFrame

\* (fault) the link stores nothing
linked_google_nothing(user, google_sub, google_email) == user

\* link_google_identity: the user row after the identity is attached
linked_google(user, google_sub, google_email) ==
    [user EXCEPT !.google_sub = Some(google_sub), !.google_email = Some(google_email),
                 !.email_verified_at = IF @ = None THEN Some(now) ELSE @]

\* link_microsoft_identity: the user row after the identity is attached
linked_microsoft(user, ms_oid, ms_tid, ms_email) ==
    [user EXCEPT !.ms_oid = Some(ms_oid), !.ms_tid = Some(ms_tid), !.ms_email = Some(ms_email),
                 !.email_verified_at = IF @ = None THEN Some(now) ELSE @]

\* AuthService.link_google_identity; via is what the OAuth callback adds to the answer
link_google_identity(via, user_id, google_sub, google_email) ==
    LET Reply(op, status, detail) ==
            IF via = None THEN Response(op, status, detail)
            ELSE Response(op, status, detail) @@ Val(via)
        others == ByGoogleSub(users, google_sub) \ {user_id}
        updated == [users EXCEPT ![user_id] = linked_google(@, google_sub, google_email)]
    IN
    /\ IF user_id \notin DOMAIN users
       THEN /\ resp' = Reply("link_google", 404, "User not found")
            /\ UNCHANGED users
       ELSE IF others # {}
       THEN /\ resp' = Reply("link_google", 409,
                           "This Google account is already linked to another user")
            /\ UNCHANGED users
       ELSE IF ~UniqueOK(updated)
       THEN /\ resp' = Reply("link_google", 500, "IntegrityError")
            /\ UNCHANGED users
       ELSE /\ users' = updated
            /\ resp' = Reply("link_google", 200, "")
    /\ UNCHANGED nextUid
    /\ SessionsUnchanged /\ AccountFrame

\* link_google_identity for the user an OAuth state token names
LinkGoogle(user_id, google_sub, google_email) ==
    link_google_identity(None, user_id, google_sub, google_email)

\* google_callback: redirect_url before the state is verified
DefaultRedirect == "http://localhost:4000/auth-complete"

\* GET /oauth/google/callback; google_user_info is None when the code exchange fails
GoogleCallback(state, google_user_info) ==
    LET verified == verify_state(state)
        state_data == Val(verified.state)
        info == Val(google_user_info)
        Redirect(url, op, status, detail) ==
            Response(op, status, detail) @@ [redirect |-> url, state |-> state]
        Via == [redirect |-> state_data.redirect, state |-> state]
        Fail(url, status, detail) ==
            /\ resp' = Redirect(url, "google_callback", status, detail)
            /\ UNCHANGED <<users, nextUid>>
            /\ SessionsUnchanged /\ AccountFrame
    IN
    IF verified.status # 0 THEN Fail(DefaultRedirect, verified.status, verified.detail)
    ELSE IF google_user_info = None
    THEN Fail(state_data.redirect, 401, "Failed to exchange authorization code")
    ELSE IF state_data.mode = "login"
    THEN login_with_google(Some(Via), info.sub, info.email, info.name)
    ELSE IF state_data.current_user_id = None
    THEN Fail(state_data.redirect, 401, "User ID required for account linking")
    ELSE link_google_identity(Some(Via), Val(state_data.current_user_id), info.sub, info.email)

\* AuthService.link_microsoft_identity
LinkMicrosoft(user_id, ms_oid, ms_tid, ms_email) ==
    LET others == ByMicrosoft(users, ms_oid, ms_tid) \ {user_id}
        updated == [users EXCEPT ![user_id] = linked_microsoft(@, ms_oid, ms_tid, ms_email)]
    IN
    /\ IF user_id \notin DOMAIN users
       THEN /\ resp' = Response("link_microsoft", 404, "User not found")
            /\ UNCHANGED users
       ELSE IF others # {}
       THEN /\ resp' = Response("link_microsoft", 409,
                           "This Microsoft account is already linked to another user")
            /\ UNCHANGED users
       ELSE IF ~UniqueOK(updated)
       THEN /\ resp' = Response("link_microsoft", 500, "IntegrityError")
            /\ UNCHANGED users
       ELSE /\ users' = updated
            /\ resp' = Response("link_microsoft", 200, "")
    /\ UNCHANGED nextUid
    /\ SessionsUnchanged /\ AccountFrame

\* get_current_user_id: only the token is checked, the user row is not read
TokenStatus(credentials) ==
    IF credentials = None THEN 403
    ELSE IF ~verify_access_token(Val(credentials)) THEN 401
    ELSE 0

\* (fault) unlink_google_identity without the last-identity guard
google_unlink_unguarded(user) == TRUE

\* unlink_google_identity: another identity (local or Microsoft) remains
google_unlink_allowed(user) == HasLocal(user) \/ HasMicrosoft(user)

\* unlink_microsoft_identity: another identity (local or Google) remains
microsoft_unlink_allowed(user) == HasLocal(user) \/ HasGoogle(user)

\* POST /oauth/google/unlink -> AuthService.unlink_google_identity
UnlinkGoogle(credentials) ==
    LET user_id == Val(credentials).payload.sub
        R(status, detail) == Response("unlink_google", status, detail)
    IN
    /\ IF TokenStatus(credentials) # 0
       THEN resp' = R(TokenStatus(credentials), "") /\ UNCHANGED users
       ELSE IF user_id \notin DOMAIN users
       THEN resp' = R(404, "User not found") /\ UNCHANGED users
       ELSE IF ~Truthy(users[user_id].google_sub)
       THEN resp' = R(404, "Google account is not linked") /\ UNCHANGED users
       ELSE IF ~google_unlink_allowed(users[user_id])
       THEN resp' = R(400, "Cannot unlink Google account") /\ UNCHANGED users
       ELSE /\ users' = [users EXCEPT ![user_id].google_sub = None,
                                      ![user_id].google_email = None]
            /\ resp' = R(204, "")
    /\ UNCHANGED nextUid
    /\ SessionsUnchanged /\ AccountFrame

\* POST /oauth/microsoft/unlink -> AuthService.unlink_microsoft_identity
UnlinkMicrosoft(credentials) ==
    LET user_id == Val(credentials).payload.sub
        R(status, detail) == Response("unlink_microsoft", status, detail)
    IN
    /\ IF TokenStatus(credentials) # 0
       THEN resp' = R(TokenStatus(credentials), "") /\ UNCHANGED users
       ELSE IF user_id \notin DOMAIN users
       THEN resp' = R(404, "User not found") /\ UNCHANGED users
       ELSE IF ~Truthy(users[user_id].ms_oid) \/ ~Truthy(users[user_id].ms_tid)
       THEN resp' = R(404, "Microsoft account is not linked") /\ UNCHANGED users
       ELSE IF ~microsoft_unlink_allowed(users[user_id])
       THEN resp' = R(400, "Cannot unlink Microsoft account") /\ UNCHANGED users
       ELSE /\ users' = [users EXCEPT ![user_id].ms_oid = None, ![user_id].ms_tid = None,
                                      ![user_id].ms_email = None]
            /\ resp' = R(204, "")
    /\ UNCHANGED nextUid
    /\ SessionsUnchanged /\ AccountFrame

\* ------------------------------------------------------------------- todos
TodoIds == 1..MaxTodos

TodoFrame ==
    /\ StoreUnchanged /\ ClientUnchanged /\ HistoryUnchanged
    /\ UNCHANGED <<now, procs>>

\* (fault) the owner filter is left out of the select
visible_todos_unfiltered(table, current_user_id, role) == DOMAIN table

\* the rows the routes select: every todo for admin and sysadmin, else the caller's own
visible_todos(table, current_user_id, role) ==
    IF role \in {"admin", "sysadmin"} THEN DOMAIN table
    ELSE {t \in DOMAIN table : table[t].owner_id = current_user_id}

TodoResponse(op, status, detail, credentials, listed) ==
    Response(op, status, detail) @@ [actor |-> credentials, listed |-> listed]

\* POST /todos
CreateTodo(credentials, description) ==
    LET uid == Val(credentials).payload.sub
    IN
    /\ IF AuthStatus(credentials) # 0
       THEN /\ resp' = TodoResponse("create_todo", AuthStatus(credentials), "", credentials, {})
            /\ UNCHANGED todos
       ELSE \E id \in TodoIds \ DOMAIN todos :
               /\ todos' = todos @@ (id :> [owner_id |-> uid, description |-> description])
               /\ resp' = TodoResponse("create_todo", 201, "", credentials, {id})
    /\ TodoFrame

\* GET /todos
GetAllTodos(credentials) ==
    LET uid == Val(credentials).payload.sub
    IN
    /\ resp' = IF AuthStatus(credentials) # 0
               THEN TodoResponse("get_all_todos", AuthStatus(credentials), "", credentials, {})
               ELSE TodoResponse("get_all_todos", 200, "", credentials,
                                 visible_todos(todos, uid, users[uid].role))
    /\ UNCHANGED todos
    /\ TodoFrame

\* GET /todos/{id}
GetTodo(credentials, id) ==
    LET uid == Val(credentials).payload.sub
    IN
    /\ resp' = IF AuthStatus(credentials) # 0
               THEN TodoResponse("get_todo", AuthStatus(credentials), "", credentials, {})
               ELSE IF id \notin visible_todos(todos, uid, users[uid].role)
               THEN TodoResponse("get_todo", 404, "Todo not found", credentials, {})
               ELSE TodoResponse("get_todo", 200, "", credentials, {id})
    /\ UNCHANGED todos
    /\ TodoFrame

\* PATCH /todos/{id}
UpdateTodo(credentials, id, description) ==
    LET uid == Val(credentials).payload.sub
    IN
    /\ IF AuthStatus(credentials) # 0
       THEN /\ resp' = TodoResponse("update_todo", AuthStatus(credentials), "", credentials, {})
            /\ UNCHANGED todos
       ELSE IF id \notin visible_todos(todos, uid, users[uid].role)
       THEN /\ resp' = TodoResponse("update_todo", 404, "Todo not found", credentials, {})
            /\ UNCHANGED todos
       ELSE /\ todos' = [todos EXCEPT ![id].description = description]
            /\ resp' = TodoResponse("update_todo", 200, "", credentials, {id})
    /\ TodoFrame

\* DELETE /todos/{id}
DeleteTodo(credentials, id) ==
    LET uid == Val(credentials).payload.sub
    IN
    /\ IF AuthStatus(credentials) # 0
       THEN /\ resp' = TodoResponse("delete_todo", AuthStatus(credentials), "", credentials, {})
            /\ UNCHANGED todos
       ELSE IF id \notin visible_todos(todos, uid, users[uid].role)
       THEN /\ resp' = TodoResponse("delete_todo", 404, "Todo not found", credentials, {})
            /\ UNCHANGED todos
       ELSE /\ todos' = [t \in DOMAIN todos \ {id} |-> todos[t]]
            /\ resp' = TodoResponse("delete_todo", 204, "", credentials, {id})
    /\ TodoFrame

\* ------------------------------------------------------- token verification
\* JWTService.verify_access_token as get_current_user calls it
VerifyAccess(token) ==
    LET decoded == jwt_decode(token, JWT_ACCESS_SECRET)
    IN
    /\ resp' = Response("verify_access_token", IF decoded.ok THEN 200 ELSE 401,
                        IF decoded.ok THEN ""
                        ELSE IF decoded.error = "ExpiredSignatureError" THEN "Token has expired"
                        ELSE "Invalid token")
               @@ [token |-> token, payload |-> decoded.payload]
    /\ UNCHANGED todos
    /\ TodoFrame

\* JWTService.verify_refresh_token as refresh_access_token calls it
VerifyRefresh(token) ==
    LET decoded == jwt_decode(token, JWT_REFRESH_SECRET)
    IN
    /\ resp' = Response("verify_refresh_token", IF decoded.ok THEN 200 ELSE 401,
                        IF decoded.ok THEN "" ELSE "Invalid refresh token")
               @@ [token |-> token, payload |-> decoded.payload]
    /\ UNCHANGED todos
    /\ TodoFrame

\* ------------------------------------------------------- administration
\* (fault) the role is read from the access token's claim
RoleStatus_from_claim(credentials, required_roles) ==
    IF AuthStatus(credentials) # 0 THEN AuthStatus(credentials)
    ELSE IF Val(credentials).payload.role \notin required_roles THEN 403
    ELSE 0

\* require_role(*required_roles) on top of get_current_active_user
RoleStatus(credentials, required_roles) ==
    IF AuthStatus(credentials) # 0 THEN AuthStatus(credentials)
    ELSE IF users[Val(credentials).payload.sub].role \notin required_roles THEN 403
    ELSE 0

\* the stored role of the authenticated caller, None when authentication failed
ActorRole(credentials) ==
    IF AuthStatus(credentials) = 0 THEN Some(users[Val(credentials).payload.sub].role)
    ELSE None

EmptyUpdate ==
    [email |-> None, password |-> None, full_name |-> None, role |-> None,
     email_verified_at |-> "unset", unlink_local |-> FALSE]

\* (fault) update_user without the "admin promotes to sysadmin" check
promotion_forbidden_never(actor_role, new_role) == FALSE

\* update_user: an Admin may not set the role to sysadmin
promotion_forbidden(actor_role, new_role) == actor_role = "admin" /\ new_role = "sysadmin"

\* (fault) the guard is missing
modifies_sysadmin_unguarded(actor_role, target_role) == FALSE

\* update_user / delete_user: an Admin may not touch a Sysadmin
modifies_sysadmin(actor_role, target_role) == actor_role = "admin" /\ target_role = "sysadmin"

\* update_user, from the field updates to just before the commit: the outcome
\* [status, detail, row, dirty] of applying update_dto to the row of user id;
\* dirty is the row object in memory when the handler returns or raises
apply_update(actor_role, table, id, update_dto) ==
    LET r0 == table[id]
        normalized_username == Normalize(Val(update_dto.email))
        e1 == update_dto.email # None /\ (ByUsername(table, normalized_username) \ {id}) # {}
        r1 == IF update_dto.email # None
              THEN [r0 EXCEPT !.local_username = Some(normalized_username)] ELSE r0
        e2 == /\ update_dto.password # None
              /\ ~validate_password_strength(Val(update_dto.password), email(r1)).isValid
        r2 == IF update_dto.password # None
              THEN [r1 EXCEPT !.local_password_hash = Some(hash_password(Val(update_dto.password)))]
              ELSE r1
        r3 == IF update_dto.full_name # None
              THEN [r2 EXCEPT !.full_name = Val(update_dto.full_name)] ELSE r2
        e4 == update_dto.role # None /\ Val(update_dto.role) \notin Roles
        e5 == update_dto.role # None /\ promotion_forbidden(actor_role, Val(update_dto.role))
        r5 == IF update_dto.role # None THEN [r3 EXCEPT !.role = Val(update_dto.role)] ELSE r3
        e6 == update_dto.email_verified_at = "invalid"
        r6 == IF update_dto.email_verified_at = "now" THEN [r5 EXCEPT !.email_verified_at = Some(now)]
              ELSE IF update_dto.email_verified_at = "null" THEN [r5 EXCEPT !.email_verified_at = None]
              ELSE r5
        e7 == update_dto.unlink_local /\ ~HasGoogle(r6) /\ ~HasMicrosoft(r6)
        e8 == update_dto.unlink_local /\ (~r6.local_enabled \/ ~Truthy(r6.local_username))
        r8 == IF update_dto.unlink_local
              THEN [r6 EXCEPT !.local_enabled = FALSE, !.local_username = None,
                              !.local_password_hash = None]
              ELSE r6
        Out(status, detail, row, dirty) ==
            [status |-> status, detail |-> detail, row |-> row, dirty |-> dirty]
    IN
    IF e1 THEN Out(400, "Username already in use", r0, r0)
    ELSE IF e2 THEN Out(400, "Password does not meet security requirements", r0, r1)
    ELSE IF e4 THEN Out(400, "Invalid role", r0, r3)
    ELSE IF e5 THEN Out(403, "Admins cannot promote users to sysadmin role", r0, r3)
    ELSE IF e6 THEN Out(400, "Invalid emailVerifiedAt value", r0, r5)
    ELSE IF e7 THEN Out(400, "Cannot unlink local account", r0, r6)
    ELSE IF e8 THEN Out(400, "Local account is not linked", r0, r6)
    ELSE Out(200, "", r8, r8)

\* GET /admin/users
GetAllUsers(credentials) ==
    LET st == RoleStatus(credentials, {"admin", "sysadmin"})
    IN
    /\ resp' = IF st # 0 THEN Response("get_all_users", st, "") @@ [listed |-> {}, actor |-> credentials]
               ELSE Response("get_all_users", 200, "") @@ [listed |-> DOMAIN users, actor |-> credentials]
    /\ UNCHANGED <<users, nextUid>>
    /\ SessionsUnchanged /\ AccountFrame

\* GET /admin/users/{id}
GetUserById(credentials, id) ==
    LET st == RoleStatus(credentials, {"admin", "sysadmin"})
    IN
    /\ resp' = IF st # 0 THEN Response("get_user_by_id", st, "") @@ [listed |-> {}, actor |-> credentials]
               ELSE IF id \notin DOMAIN users
               THEN Response("get_user_by_id", 404, "User not found") @@ [listed |-> {}, actor |-> credentials]
               ELSE Response("get_user_by_id", 200, "") @@ [listed |-> {id}, actor |-> credentials]
    /\ UNCHANGED <<users, nextUid>>
    /\ SessionsUnchanged /\ AccountFrame

\* (fault) the session commits what is pending when it is closed
close_session_committing(committed, pending) == pending

\* get_db: the session is closed when the request ends; what it holds
\* uncommitted is rolled back
close_session(committed, pending) == committed

\* PATCH /admin/users/{id}
AdminUpdate(credentials, id, update_dto) ==
    LET st == RoleStatus(credentials, {"admin", "sysadmin"})
        actor_role == Val(ActorRole(credentials))
        out == apply_update(actor_role, users, id, update_dto)
        updated == [users EXCEPT ![id] = out.row]
        R(status, detail) == Response("admin_update", status, detail)
    IN
    /\ IF st # 0 THEN resp' = R(st, "") /\ UNCHANGED users
       ELSE IF id \notin DOMAIN users
       THEN resp' = R(404, "User not found") /\ UNCHANGED users
       ELSE IF modifies_sysadmin(actor_role, users[id].role)
       THEN resp' = R(403, "Admins cannot modify sysadmin users") /\ UNCHANGED users
       ELSE IF out.status # 200
       THEN /\ resp' = R(out.status, out.detail)
            /\ users' = close_session(users, [users EXCEPT ![id] = out.dirty])
       ELSE IF ~UniqueOK(updated)
       THEN resp' = R(500, "IntegrityError") /\ UNCHANGED users
       ELSE users' = updated /\ resp' = R(200, "")
    /\ UNCHANGED nextUid
    /\ SessionsUnchanged /\ AccountFrame

\* DELETE /admin/users/{id}
AdminDelete(credentials, id) ==
    LET st == RoleStatus(credentials, {"admin", "sysadmin"})
        actor_role == Val(ActorRole(credentials))
        keep == DOMAIN users \ {id}
        R(status, detail) == Response("admin_delete", status, detail)
        Fail(status, detail) ==
            resp' = R(status, detail) /\ UNCHANGED <<users, sessions, reset_tokens, verification_tokens, todos>>
    IN
    /\ IF st # 0 THEN Fail(st, "")
       ELSE IF id \notin DOMAIN users THEN Fail(404, "User not found")
       ELSE IF modifies_sysadmin(actor_role, users[id].role)
       THEN Fail(403, "Admins cannot delete sysadmin users")
       ELSE IF id = Val(credentials).payload.sub
       THEN Fail(400, "Cannot delete your own account")
       ELSE /\ users' = [u \in keep |-> users[u]]
            /\ sessions' = CascadeRows(sessions, keep)
            /\ reset_tokens' = CascadeRows(reset_tokens, keep)
            /\ verification_tokens' = CascadeRows(verification_tokens, keep)
            /\ todos' = CascadeTodos(todos, keep)
            /\ resp' = R(204, "")
    /\ UNCHANGED <<nextUid, nextSid, nextRst, issuedRefresh, issuedAccess>>
    /\ UNCHANGED <<rotated, preReset, now, procs>>

\* (fault) the overlap check stops at the first provider found on both sides
merge_conflicts_first_only(source_user, destination_user) ==
    IF HasLocal(source_user) /\ HasLocal(destination_user) THEN <<"local">>
    ELSE IF HasGoogle(source_user) /\ HasGoogle(destination_user) THEN <<"google">>
    ELSE IF HasMicrosoft(source_user) /\ HasMicrosoft(destination_user) THEN <<"microsoft">>
    ELSE <<>>

\* merge_users: the providers present on both users, in the order they are appended
merge_conflicts(source_user, destination_user) ==
    (IF HasLocal(source_user) /\ HasLocal(destination_user) THEN <<"local">> ELSE <<>>)
    \o (IF HasGoogle(source_user) /\ HasGoogle(destination_user) THEN <<"google">> ELSE <<>>)
    \o (IF HasMicrosoft(source_user) /\ HasMicrosoft(destination_user)
        THEN <<"microsoft">> ELSE <<>>)

\* merge_users: the destination row after the source's identity blocks are copied
merged_destination(source_user, destination_user) ==
    LET d1 == IF HasLocal(source_user) /\ ~HasLocal(destination_user)
              THEN [destination_user EXCEPT
                        !.local_enabled = source_user.local_enabled,
                        !.local_username = source_user.local_username,
                        !.local_password_hash = source_user.local_password_hash]
              ELSE destination_user
        d2 == IF HasGoogle(source_user) /\ ~HasGoogle(destination_user)
              THEN [d1 EXCEPT !.google_sub = source_user.google_sub,
                              !.google_email = source_user.google_email]
              ELSE d1
        d3 == IF HasMicrosoft(source_user) /\ ~HasMicrosoft(destination_user)
              THEN [d2 EXCEPT !.ms_oid = source_user.ms_oid, !.ms_tid = source_user.ms_tid,
                              !.ms_email = source_user.ms_email]
              ELSE d2
    IN IF d3.email_verified_at = None /\ source_user.email_verified_at # None
       THEN [d3 EXCEPT !.email_verified_at = source_user.email_verified_at]
       ELSE d3

\* POST /admin/merge-users: the destination is committed first, while the
\* source row still exists; the source is deleted by a second commit
MergeUsers(credentials, source_user_id, destination_user_id) ==
    LET st == RoleStatus(credentials, {"sysadmin"})
        source_user == users[source_user_id]
        destination_user == users[destination_user_id]
        conflicts == merge_conflicts(source_user, destination_user)
        first_commit == [users EXCEPT ![destination_user_id] =
                              merged_destination(source_user, destination_user)]
        keep == DOMAIN users \ {source_user_id}
        R(status, detail, named) ==
            Response("merge_users", status, detail) @@ [conflicts |-> named]
        Fail(status, detail, named) ==
            resp' = R(status, detail, named) /\ UNCHANGED <<users, sessions, reset_tokens, verification_tokens, todos>>
    IN
    /\ IF st # 0 THEN Fail(st, "", <<>>)
       ELSE IF source_user_id = destination_user_id
       THEN Fail(400, "Source and destination users must be different", <<>>)
       ELSE IF source_user_id \notin DOMAIN users THEN Fail(404, "Source user not found", <<>>)
       ELSE IF destination_user_id \notin DOMAIN users
       THEN Fail(404, "Destination user not found", <<>>)
       ELSE IF conflicts # <<>>
       THEN Fail(409, "Cannot merge accounts - overlapping identities", conflicts)
       ELSE IF ~UniqueOK(first_commit) THEN Fail(500, "IntegrityError", <<>>)
       ELSE /\ users' = [u \in keep |-> first_commit[u]]
            /\ sessions' = CascadeRows(sessions, keep)
            /\ reset_tokens' = CascadeRows(reset_tokens, keep)
            /\ verification_tokens' = CascadeRows(verification_tokens, keep)
            /\ todos' = CascadeTodos(todos, keep)
            /\ resp' = R(200, "Accounts merged successfully", <<>>)
    /\ UNCHANGED <<nextUid, nextSid, nextRst, issuedRefresh, issuedAccess>>
    /\ UNCHANGED <<rotated, preReset, now, procs>>

\* ------------------------------------------------- specification: sessions
LoginEmails == {"a@x.com", "A@x.com ", "nobody@x.com"}

NoResponse == Response("none", 0, "")

InitSessions ==
    /\ users = (1 :> LocalUser("a@x.com", "Ann", "Password123!", "guest", Some(0)))
               @@ (2 :> LocalUser("b@x.com", "Bob", "Password123!", "guest", Some(0)))
    /\ sessions = <<>>
    /\ reset_tokens = <<>>
    /\ verification_tokens = <<>>
    /\ todos = <<>>
    /\ now = 0
    /\ nextUid = 3
    /\ nextSid = 1
    /\ nextRst = 1
    /\ issuedRefresh = {}
    /\ issuedAccess = [u \in UserIds |-> None]
    /\ rotated = {}
    /\ preReset = {}
    /\ resp = NoResponse
    /\ procs = <<>>

NextSessions ==
    \/ \E e \in LoginEmails, p \in {"Password123!", "New-Secret-456"} : Login(e, p)
    \/ \E t \in issuedRefresh \cup {ForgedRefresh} : Refresh(t)
    \/ \E c \in Credentials, t \in issuedRefresh \cup {ForgedRefresh} : Logout(c, t)
    \/ \E e \in LoginEmails : nextRst <= MaxSessionResets /\ RequestPasswordReset(e)
    \/ \E n \in 1..MaxSessionResets, p \in {"New-Secret-456", "password"} :
          ResetPassword(ResetSecret(n), p)
    \/ \E c \in Credentials : DeleteAccount(c)
    \/ Tick

Spec == InitSessions /\ [][NextSessions]_vars

\* ------------------------------------------- specification: roles and admin
\* a session opened before the first step of a behaviour
EarlierSession(sid, user_id) ==
    [ user_id |-> user_id,
      refresh_token_hash |-> _hash_token(generate_refresh_token(user_id, sid)),
      expires_at |-> RefreshExpiryTicks,
      revoked_at |-> None ]

\* a verified Sysadmin (1) and a verified Admin (2), both logged in
InitAccounts ==
    /\ now = 0
    /\ users = (1 :> LocalUser("a@x.com", "Ann", "Password123!", "sysadmin", Some(0)))
               @@ (2 :> LocalUser("b@x.com", "Bob", "Password123!", "admin", Some(0)))
    /\ sessions = (0 :> EarlierSession(0, 1)) @@ (1 :> EarlierSession(1, 2))
    /\ reset_tokens = <<>>
    /\ verification_tokens = <<>>
    /\ todos = <<>>
    /\ nextUid = 3
    /\ nextSid = 2
    /\ nextRst = 1
    /\ issuedRefresh = {generate_refresh_token(1, 0), generate_refresh_token(2, 1)}
    /\ issuedAccess = [u \in UserIds |->
                          IF u = 1 THEN Some(generate_access_token(1, "a@x.com", "sysadmin"))
                          ELSE IF u = 2 THEN Some(generate_access_token(2, "b@x.com", "admin"))
                          ELSE None]
    /\ rotated = {}
    /\ preReset = {}
    /\ resp = NoResponse
    /\ procs = <<>>

\* the users an OAuth link flow can have been started for
LinkStarters == {u \in UserIds : issuedAccess[u] # None}

RegisterDtos ==
    [email : {"c@x.com"}, password : {"Password123!"},
     full_name : {"Cy"}, autoverify : {TRUE}, role : Roles]
    \cup {[email |-> "A@x.com ", password |-> "Password123!", full_name |-> "Cy",
           autoverify |-> TRUE, role |-> "guest"]}

RoleUpdates ==
    {[EmptyUpdate EXCEPT !.role = Some(r)] : r \in Roles \cup {"root"}}
    \cup {[EmptyUpdate EXCEPT !.role = Some("sysadmin"), !.email = Some("A@x.com ")],
          [EmptyUpdate EXCEPT !.role = Some("sysadmin"), !.password = Some("password")]}

NextAdmin ==
    \/ \E dto \in RegisterDtos : Register(dto)
    \/ \E c \in Credentials, id \in UserIds, dto \in RoleUpdates : AdminUpdate(c, id, dto)
    \/ \E c \in Credentials, id \in UserIds : AdminDelete(c, id)

SpecAdmin == InitAccounts /\ [][NextAdmin]_vars

\* -------------------------------------------- specification: identity blocks
GoogleSubs == {"g1", "g2"}

MicrosoftIds == {<<"o1", "t1">>}

IdentityUpdates ==
    {[EmptyUpdate EXCEPT !.unlink_local = TRUE]}

UsernameUpdates ==
    {[EmptyUpdate EXCEPT !.email = Some(" ")]}

\* the callers of the admin endpoints: nobody, the Sysadmin (1), the Admin (2)
AdminCallers == {None, issuedAccess[1], issuedAccess[2]}

\* the ids an admin request names: those handed out so far and one unknown id
KnownIds == {u \in UserIds : u <= nextUid}

IdentityStep(updates) ==
    \/ \E g \in GoogleSubs : LoginWithGoogle(g, "c@gmail.com", "Cy")
    \/ \E m \in MicrosoftIds : LoginWithMicrosoft(m[1], m[2], "c@outlook.com", "Cy")
    \/ \E u \in LinkStarters, g \in GoogleSubs : LinkGoogle(u, g, "c@gmail.com")
    \/ \E u \in LinkStarters, m \in MicrosoftIds : LinkMicrosoft(u, m[1], m[2], "c@outlook.com")
    \/ \E c \in Credentials : UnlinkGoogle(c)
    \/ \E c \in Credentials : UnlinkMicrosoft(c)
    \/ \E c \in AdminCallers, id \in KnownIds, dto \in updates : AdminUpdate(c, id, dto)
    \/ \E c \in AdminCallers, s \in KnownIds, d \in KnownIds : MergeUsers(c, s, d)

NextIdentity == IdentityStep(IdentityUpdates)

SpecIdentity == InitAccounts /\ [][NextIdentity]_vars

\* the same operations with registration, the admin update also rewriting the
\* local username
NextUsernames ==
    \/ Register([email |-> "c@x.com", password |-> "Password123!", full_name |-> "Cy",
                 autoverify |-> TRUE, role |-> "guest"])
    \/ IdentityStep(IdentityUpdates \cup UsernameUpdates)

SpecUsernames == InitAccounts /\ [][NextUsernames]_vars

\* ------------------------------------------- concurrent requests: two phases
\* A request runs in its own database session: it first reads and checks, and
\* later commits what it wrote.  Other requests may commit in between.
ProcIds == 1..MaxProcs

Idle == [op |-> "none", pc |-> "idle", req |-> <<>>, status |-> 0,
         passed |-> FALSE, created |-> FALSE, overlapped |-> {}]

\* the requests that have passed their checks and not yet committed
InFlight == {q \in ProcIds : procs[q].pc = "commit"}

\* process p takes up a new request
Start(p, op, req, status) ==
    procs' = [q \in ProcIds |->
                 IF q = p
                 THEN [op |-> op, pc |-> IF status = 0 THEN "commit" ELSE "done", req |-> req,
                       status |-> status, passed |-> status = 0, created |-> FALSE,
                       overlapped |-> InFlight \ {p}]
                 ELSE [procs[q] EXCEPT !.overlapped = @ \ {p}]]

\* the request of process p returns
Finish(p, status, created) ==
    procs' = [procs EXCEPT ![p].pc = "done", ![p].status = status, ![p].created = created]

\* the UPDATE a unit of work flushes: only the columns the request changed
\* on the row it read are written onto the row as it is now
flush_update(current, read, written) ==
    [f \in DOMAIN current |-> IF read[f] # written[f] THEN written[f] ELSE current[f]]

RaceFrame == UNCHANGED <<todos, reset_tokens, verification_tokens, nextRst, rotated, preReset, now, resp>>

\* AuthService.register up to the existence check
RegisterBegin(p, dto) ==
    LET normalized_username == Normalize(dto.email)
        validation == validate_password_strength(dto.password, normalized_username)
    IN
    /\ procs[p].pc = "idle"
    /\ Start(p, "register", dto,
             IF ~validation.isValid THEN 400
             ELSE IF ByUsername(users, normalized_username) # {} THEN 409
             ELSE 0)
    /\ UNCHANGED <<users, nextUid>>
    /\ SessionsUnchanged /\ RaceFrame

\* AuthService.register: session.add(user); session.commit()
RegisterCommit(p) ==
    LET inserted == users @@ (nextUid :> RegisteredUser(procs[p].req))
    IN
    /\ procs[p].pc = "commit" /\ procs[p].op = "register"
    /\ IF ~UniqueOK(inserted)
       THEN Finish(p, 500, FALSE) /\ UNCHANGED <<users, nextUid>>
       ELSE /\ nextUid <= MaxUsers
            /\ users' = inserted
            /\ nextUid' = nextUid + 1
            /\ Finish(p, 201, TRUE)
    /\ SessionsUnchanged /\ RaceFrame

\* AuthService.login_with_google up to the lookup by google_sub; a known
\* identity is logged in at once
GoogleLoginBegin(p, google_sub, google_email, full_name) ==
    LET found == ByGoogleSub(users, google_sub)
        uid == CHOOSE u \in found : TRUE
        row == [users[uid] EXCEPT !.google_email = Some(google_email)]
    IN
    /\ procs[p].pc = "idle"
    /\ IF found # {}
       THEN /\ users' = [users EXCEPT ![uid] = row]
            /\ CreateAuthResponse(uid, row, sessions)
            /\ Start(p, "login_with_google", google_sub, 200)
       ELSE /\ Start(p, "login_with_google", google_sub, 0)
            /\ UNCHANGED users
            /\ SessionsUnchanged
    /\ UNCHANGED nextUid
    /\ RaceFrame

\* AuthService.login_with_google: the insert of the new user and the session
GoogleLoginCommit(p) ==
    LET row == GoogleUser(procs[p].req, "c@gmail.com", "Cy")
        inserted == users @@ (nextUid :> row)
    IN
    /\ procs[p].pc = "commit" /\ procs[p].op = "login_with_google"
    /\ IF ~UniqueOK(inserted)
       THEN Finish(p, 500, FALSE) /\ UNCHANGED <<users, nextUid>> /\ SessionsUnchanged
       ELSE /\ nextUid <= MaxUsers
            /\ users' = inserted
            /\ nextUid' = nextUid + 1
            /\ CreateAuthResponse(nextUid, row, sessions)
            /\ Finish(p, 200, TRUE)
    /\ RaceFrame

\* AuthService.login_with_microsoft up to the lookup by (ms_oid, ms_tid)
MicrosoftLoginBegin(p, ms_oid, ms_tid, ms_email, full_name) ==
    LET found == ByMicrosoft(users, ms_oid, ms_tid)
        uid == CHOOSE u \in found : TRUE
        row == [users[uid] EXCEPT !.ms_email = Some(ms_email)]
    IN
    /\ procs[p].pc = "idle"
    /\ IF found # {}
       THEN /\ users' = [users EXCEPT ![uid] = row]
            /\ CreateAuthResponse(uid, row, sessions)
            /\ Start(p, "login_with_microsoft", <<ms_oid, ms_tid>>, 200)
       ELSE /\ Start(p, "login_with_microsoft", <<ms_oid, ms_tid>>, 0)
            /\ UNCHANGED users
            /\ SessionsUnchanged
    /\ UNCHANGED nextUid
    /\ RaceFrame

\* AuthService.login_with_microsoft: the insert of the new user and the session
MicrosoftLoginCommit(p) ==
    LET row == MicrosoftUser(procs[p].req[1], procs[p].req[2], "c@outlook.com", "Cy")
        inserted == users @@ (nextUid :> row)
    IN
    /\ procs[p].pc = "commit" /\ procs[p].op = "login_with_microsoft"
    /\ IF ~UniqueOK(inserted)
       THEN Finish(p, 500, FALSE) /\ UNCHANGED <<users, nextUid>> /\ SessionsUnchanged
       ELSE /\ nextUid <= MaxUsers
            /\ users' = inserted
            /\ nextUid' = nextUid + 1
            /\ CreateAuthResponse(nextUid, row, sessions)
            /\ Finish(p, 200, TRUE)
    /\ RaceFrame

\* AuthService.link_google_identity up to the check for another holder
LinkGoogleBegin(p, user_id, google_sub, google_email) ==
    /\ procs[p].pc = "idle"
    /\ Start(p, "link_google",
             [user_id |-> user_id,
              read |-> IF user_id \in DOMAIN users THEN Some(users[user_id]) ELSE None,
              written |-> IF user_id \in DOMAIN users
                          THEN Some(linked_google(users[user_id], google_sub, google_email))
                          ELSE None],
             IF user_id \notin DOMAIN users THEN 404
             ELSE IF ByGoogleSub(users, google_sub) \ {user_id} # {} THEN 409
             ELSE 0)
    /\ UNCHANGED <<users, nextUid>>
    /\ SessionsUnchanged /\ RaceFrame

\* PATCH /admin/users/{id} up to the last field check
AdminUpdateBegin(p, credentials, id, update_dto) ==
    LET st == RoleStatus(credentials, {"admin", "sysadmin"})
        actor_role == Val(ActorRole(credentials))
        out == apply_update(actor_role, users, id, update_dto)
    IN
    /\ procs[p].pc = "idle"
    /\ Start(p, "admin_update",
             [user_id |-> id,
              read |-> IF id \in DOMAIN users THEN Some(users[id]) ELSE None,
              written |-> IF st = 0 /\ id \in DOMAIN users THEN Some(out.row) ELSE None],
             IF st # 0 THEN st
             ELSE IF id \notin DOMAIN users THEN 404
             ELSE IF modifies_sysadmin(actor_role, users[id].role) THEN 403
             ELSE IF out.status # 200 THEN out.status
             ELSE 0)
    /\ UNCHANGED <<users, nextUid>>
    /\ SessionsUnchanged /\ RaceFrame

\* link_google_identity / update_user: session.add(user); session.commit()
UpdateCommit(p) ==
    LET user_id == procs[p].req.user_id
        updated == [users EXCEPT ![user_id] =
                        flush_update(@, Val(procs[p].req.read), Val(procs[p].req.written))]
    IN
    /\ procs[p].pc = "commit" /\ procs[p].op \in {"link_google", "admin_update"}
    /\ IF user_id \notin DOMAIN users
       THEN Finish(p, 500, FALSE) /\ UNCHANGED users
       ELSE IF ~UniqueOK(updated)
       THEN Finish(p, 500, FALSE) /\ UNCHANGED users
       ELSE users' = updated /\ Finish(p, 200, FALSE)
    /\ UNCHANGED nextUid
    /\ SessionsUnchanged /\ RaceFrame

\* AuthService.refresh_access_token up to the lookup of the user: the token
\* is verified and the session row is read and checked
RefreshBegin(p, refresh_token) ==
    LET token_hash == _hash_token(refresh_token)
        found == {s \in DOMAIN sessions : sessions[s].refresh_token_hash = token_hash}
        sid == CHOOSE s \in found : TRUE
        user_id == refresh_token.payload.sub
    IN
    /\ procs[p].pc = "idle"
    /\ Start(p, "refresh",
             [token |-> refresh_token,
              sid |-> IF found = {} THEN None ELSE Some(sid),
              user_id |-> user_id,
              successor |-> None],
             IF ~verify_refresh_token(refresh_token) THEN 401
             ELSE IF found = {} THEN 401
             ELSE IF sessions[sid].revoked_at # None THEN 401
             ELSE IF now > sessions[sid].expires_at THEN 401
             ELSE IF user_id \notin DOMAIN users THEN 401
             ELSE 0)
    /\ UNCHANGED <<users, nextUid>>
    /\ SessionsUnchanged /\ RaceFrame

\* (fault) the revocation is not committed before the replacement is created
RefreshRevoke_uncommitted(p) ==
    /\ procs[p].pc = "commit" /\ procs[p].op = "refresh"
    /\ procs' = [procs EXCEPT ![p].pc = "create"]
    /\ UNCHANGED <<users, nextUid, sessions, nextSid, issuedRefresh, issuedAccess>>
    /\ RaceFrame

\* refresh_access_token: session_obj.revoked_at = now; session.add; session.commit
RefreshRevoke(p) ==
    /\ procs[p].pc = "commit" /\ procs[p].op = "refresh"
    /\ sessions' = revoke_session(sessions, Val(procs[p].req.sid))
    /\ procs' = [procs EXCEPT ![p].pc = "create"]
    /\ UNCHANGED <<users, nextUid, nextSid, issuedRefresh, issuedAccess>>
    /\ RaceFrame

\* refresh_access_token: _create_auth_response commits the new session and
\* the token pair is returned
RefreshCreate(p) ==
    LET user_id == procs[p].req.user_id
    IN
    /\ procs[p].pc = "create" /\ procs[p].op = "refresh"
    /\ CreateAuthResponse(user_id, users[user_id], sessions)
    /\ procs' = [procs EXCEPT ![p].pc = "done", ![p].status = 200, ![p].created = TRUE,
                              ![p].req.successor = Some(nextSid)]
    /\ UNCHANGED <<users, nextUid>>
    /\ RaceFrame

\* unlink_google_identity up to the last-identity check
UnlinkGoogleBegin(p, credentials) ==
    LET user_id == Val(credentials).payload.sub
        known == TokenStatus(credentials) = 0 /\ user_id \in DOMAIN users
    IN
    /\ procs[p].pc = "idle"
    /\ Start(p, "unlink_google",
             [user_id |-> IF TokenStatus(credentials) = 0 THEN Some(user_id) ELSE None,
              read |-> IF known THEN Some(users[user_id]) ELSE None,
              written |-> IF known
                          THEN Some([users[user_id] EXCEPT !.google_sub = None,
                                                           !.google_email = None])
                          ELSE None],
             IF TokenStatus(credentials) # 0 THEN TokenStatus(credentials)
             ELSE IF user_id \notin DOMAIN users THEN 404
             ELSE IF ~Truthy(users[user_id].google_sub) THEN 404
             ELSE IF ~google_unlink_allowed(users[user_id]) THEN 400
             ELSE 0)
    /\ UNCHANGED <<users, nextUid>>
    /\ SessionsUnchanged /\ RaceFrame

\* unlink_microsoft_identity up to the last-identity check
UnlinkMicrosoftBegin(p, credentials) ==
    LET user_id == Val(credentials).payload.sub
        known == TokenStatus(credentials) = 0 /\ user_id \in DOMAIN users
    IN
    /\ procs[p].pc = "idle"
    /\ Start(p, "unlink_microsoft",
             [user_id |-> IF TokenStatus(credentials) = 0 THEN Some(user_id) ELSE None,
              read |-> IF known THEN Some(users[user_id]) ELSE None,
              written |-> IF known
                          THEN Some([users[user_id] EXCEPT !.ms_oid = None, !.ms_tid = None,
                                                           !.ms_email = None])
                          ELSE None],
             IF TokenStatus(credentials) # 0 THEN TokenStatus(credentials)
             ELSE IF user_id \notin DOMAIN users THEN 404
             ELSE IF ~Truthy(users[user_id].ms_oid) \/ ~Truthy(users[user_id].ms_tid) THEN 404
             ELSE IF ~microsoft_unlink_allowed(users[user_id]) THEN 400
             ELSE 0)
    /\ UNCHANGED <<users, nextUid>>
    /\ SessionsUnchanged /\ RaceFrame

\* unlink_google_identity / unlink_microsoft_identity: session.add(user); session.commit()
UnlinkCommit(p) ==
    LET user_id == Val(procs[p].req.user_id)
    IN
    /\ procs[p].pc = "commit" /\ procs[p].op \in {"unlink_google", "unlink_microsoft"}
    /\ users' = [users EXCEPT ![user_id] =
                    flush_update(@, Val(procs[p].req.read), Val(procs[p].req.written))]
    /\ Finish(p, 204, FALSE)
    /\ UNCHANGED nextUid
    /\ SessionsUnchanged /\ RaceFrame

\* the worker dies while it serves a refresh: what it committed stays, the
\* rest of the handler never runs
RefreshCrash(p) ==
    /\ procs[p].op = "refresh" /\ procs[p].pc \in {"commit", "create"}
    /\ procs' = [procs EXCEPT ![p].pc = IF procs[p].pc = "create"
                                        THEN "crashed_after_revoke" ELSE "crashed",
                              ![p].status = 500]
    /\ UNCHANGED <<users, nextUid>>
    /\ SessionsUnchanged /\ RaceFrame

\* AuthService.reset_password up to the password validation: the token and
\* the user are read and checked
ResetPasswordBegin(p, token, new_password) ==
    LET token_hash == _hash_token(token)
        found == {t \in DOMAIN reset_tokens :
                     /\ reset_tokens[t].token_hash = token_hash
                     /\ reset_tokens[t].used_at = None}
        tid == CHOOSE t \in found : TRUE
        uid == reset_tokens[tid].user_id
    IN
    /\ procs[p].pc = "idle"
    /\ Start(p, "reset_password",
             [tid |-> IF found = {} THEN None ELSE Some(tid),
              user_id |-> IF found = {} THEN None ELSE Some(uid),
              new_password |-> new_password],
             IF found = {} THEN 400
             ELSE IF now > reset_tokens[tid].expires_at THEN 400
             ELSE IF uid \notin DOMAIN users THEN 400
             ELSE IF ~validate_password_strength(new_password, email(users[uid])).isValid
             THEN 400
             ELSE 0)
    /\ UNCHANGED <<users, nextUid>>
    /\ SessionsUnchanged /\ RaceFrame

\* reset_password: the password, the token and every session row the select
\* returns are written and committed together
ResetPasswordCommit(p) ==
    LET uid == Val(procs[p].req.user_id)
        tid == Val(procs[p].req.tid)
    IN
    /\ procs[p].pc = "commit" /\ procs[p].op = "reset_password"
    /\ users' = [users EXCEPT ![uid].local_password_hash =
                                  Some(hash_password(procs[p].req.new_password))]
    /\ reset_tokens' = [reset_tokens EXCEPT ![tid].used_at = Some(now)]
    /\ sessions' = revoke_all_sessions(sessions, uid)
    /\ preReset' = preReset \cup {t \in issuedRefresh : t.payload.sub = uid}
    /\ Finish(p, 200, FALSE)
    /\ UNCHANGED <<verification_tokens, todos, nextUid, nextSid, nextRst, rotated, now, resp>>
    /\ ClientUnchanged

\* POST /admin/merge-users up to the overlap check: both users are read
MergeBegin(p, credentials, source_user_id, destination_user_id) ==
    LET st == RoleStatus(credentials, {"sysadmin"})
        both == source_user_id \in DOMAIN users /\ destination_user_id \in DOMAIN users
    IN
    /\ procs[p].pc = "idle"
    /\ Start(p, "merge_users",
             [source_user_id |-> source_user_id,
              destination_user_id |-> destination_user_id,
              source |-> IF both THEN Some(users[source_user_id]) ELSE None,
              read |-> IF both THEN Some(users[destination_user_id]) ELSE None,
              written |-> IF both
                          THEN Some(merged_destination(users[source_user_id],
                                                       users[destination_user_id]))
                          ELSE None],
             IF st # 0 THEN st
             ELSE IF source_user_id = destination_user_id THEN 400
             ELSE IF source_user_id \notin DOMAIN users THEN 404
             ELSE IF destination_user_id \notin DOMAIN users THEN 404
             ELSE IF merge_conflicts(users[source_user_id], users[destination_user_id]) # <<>>
             THEN 409
             ELSE 0)
    /\ UNCHANGED <<users, nextUid>>
    /\ SessionsUnchanged /\ RaceFrame

\* merge_users: session.add(destination_user); session.commit()
MergeCommitDestination(p) ==
    LET destination_user_id == procs[p].req.destination_user_id
        updated == [users EXCEPT ![destination_user_id] =
                        flush_update(@, Val(procs[p].req.read), Val(procs[p].req.written))]
    IN
    /\ procs[p].pc = "commit" /\ procs[p].op = "merge_users"
    /\ IF destination_user_id \notin DOMAIN users
       THEN Finish(p, 500, FALSE) /\ UNCHANGED users
       ELSE IF ~UniqueOK(updated)
       THEN Finish(p, 500, FALSE) /\ UNCHANGED users
       ELSE /\ users' = updated
            /\ procs' = [procs EXCEPT ![p].pc = "delete"]
    /\ UNCHANGED nextUid
    /\ SessionsUnchanged /\ RaceFrame

\* merge_users: session.delete(source_user); session.commit()
MergeDeleteSource(p) ==
    LET keep == DOMAIN users \ {procs[p].req.source_user_id}
    IN
    /\ procs[p].pc = "delete" /\ procs[p].op = "merge_users"
    /\ users' = [u \in keep |-> users[u]]
    /\ sessions' = CascadeRows(sessions, keep)
    /\ reset_tokens' = CascadeRows(reset_tokens, keep)
    /\ verification_tokens' = CascadeRows(verification_tokens, keep)
    /\ todos' = CascadeTodos(todos, keep)
    /\ Finish(p, 200, FALSE)
    /\ UNCHANGED <<nextUid, nextSid, nextRst, issuedRefresh, issuedAccess>>
    /\ UNCHANGED <<rotated, preReset, now, resp>>

\* the worker dies while it serves a merge: what it committed stays
MergeCrash(p) ==
    /\ procs[p].op = "merge_users" /\ procs[p].pc \in {"commit", "delete"}
    /\ procs' = [procs EXCEPT ![p].pc = "crashed", ![p].status = 500]
    /\ UNCHANGED <<users, nextUid>>
    /\ SessionsUnchanged /\ RaceFrame

\* a logged-in, verified Sysadmin (1); every process is idle
InitRace ==
    /\ now = 0
    /\ users = (1 :> LocalUser("a@x.com", "Ann", "Password123!", "sysadmin", Some(0)))
    /\ sessions = (0 :> EarlierSession(0, 1))
    /\ reset_tokens = <<>>
    /\ verification_tokens = <<>>
    /\ todos = <<>>
    /\ nextUid = 2
    /\ nextSid = 1
    /\ nextRst = 1
    /\ issuedRefresh = {generate_refresh_token(1, 0)}
    /\ issuedAccess = [u \in UserIds |->
                          IF u = 1 THEN Some(generate_access_token(1, "a@x.com", "sysadmin"))
                          ELSE None]
    /\ rotated = {}
    /\ preReset = {}
    /\ resp = NoResponse
    /\ procs = [p \in ProcIds |-> Idle]

RaceEmails == {"c@x.com", "C@x.com "}

CreationStep ==
    \/ \E p \in ProcIds, e \in RaceEmails :
          RegisterBegin(p, [email |-> e, password |-> "Password123!", full_name |-> "Cy",
                            autoverify |-> TRUE, role |-> "guest"])
    \/ \E p \in ProcIds : RegisterCommit(p)
    \/ \E p \in ProcIds : GoogleLoginBegin(p, "g1", "c@gmail.com", "Cy")
    \/ \E p \in ProcIds : GoogleLoginCommit(p)
    \/ \E p \in ProcIds : MicrosoftLoginBegin(p, "o1", "t1", "c@outlook.com", "Cy")
    \/ \E p \in ProcIds : MicrosoftLoginCommit(p)

NextCreationRace == CreationStep

\* concurrent registrations and first-time federated logins
SpecCreationRace == InitRace /\ [][NextCreationRace]_vars

NextRace ==
    \/ CreationStep
    \/ \E p \in ProcIds, u \in LinkStarters : LinkGoogleBegin(p, u, "g1", "c@gmail.com")
    \/ \E p \in ProcIds, c \in Credentials, id \in UserIds :
          AdminUpdateBegin(p, c, id, [EmptyUpdate EXCEPT !.email = Some("c@x.com")])
    \/ \E p \in ProcIds : UpdateCommit(p)
    \/ \E c \in Credentials, s \in UserIds, d \in UserIds : MergeUsers(c, s, d)

\* concurrent requests that write identity keys
SpecRace == InitRace /\ [][NextRace]_vars

\* the refresh tokens concurrent clients present
RaceRefreshTokens == issuedRefresh \cup {ForgedRefresh}

NextRefreshRace ==
    \/ \E p \in ProcIds, t \in RaceRefreshTokens : RefreshBegin(p, t)
    \/ \E p \in ProcIds : RefreshRevoke(p)
    \/ \E p \in ProcIds : RefreshCreate(p)
    \/ Tick

\* concurrent refresh requests
SpecRefreshRace == InitRace /\ [][NextRefreshRace]_vars

NextUnlinkRace ==
    \/ LoginWithGoogle("g1", "c@gmail.com", "Cy")
    \/ \E u \in LinkStarters : LinkMicrosoft(u, "o1", "t1", "c@outlook.com")
    \/ \E p \in ProcIds, c \in Credentials : UnlinkGoogleBegin(p, c)
    \/ \E p \in ProcIds, c \in Credentials : UnlinkMicrosoftBegin(p, c)
    \/ \E p \in ProcIds : UnlinkCommit(p)

\* concurrent unlink requests of a user who signed in with Google and linked Microsoft
SpecUnlinkRace == InitRace /\ [][NextUnlinkRace]_vars

NextResetRace ==
    \/ RequestPasswordReset("a@x.com")
    \/ \E p \in ProcIds, t \in RaceRefreshTokens : RefreshBegin(p, t)
    \/ \E p \in ProcIds : RefreshRevoke(p)
    \/ \E p \in ProcIds : RefreshCreate(p)
    \/ \E p \in ProcIds, n \in 1..MaxResetTokens, w \in {"New-Secret-456", "password"} :
          ResetPasswordBegin(p, ResetSecret(n), w)
    \/ \E p \in ProcIds : ResetPasswordCommit(p)

\* a password reset concurrent with refresh requests of the same user
SpecResetRace == InitRace /\ [][NextResetRace]_vars

NextRotation ==
    \/ \E p \in ProcIds, t \in RaceRefreshTokens : RefreshBegin(p, t)
    \/ \E p \in ProcIds : RefreshRevoke(p)
    \/ \E p \in ProcIds : RefreshCreate(p)
    \/ \E p \in ProcIds : RefreshCrash(p)
    \/ Tick

\* rotations that can be cut short by a crash of the worker
SpecRotation == InitRace /\ [][NextRotation]_vars

\* a logged-in Sysadmin (1), a logged-in local Guest (2) and a Guest who
\* came in through Google (3); every process is idle
InitMerge ==
    /\ now = 0
    /\ users = (1 :> LocalUser("a@x.com", "Ann", "Password123!", "sysadmin", Some(0)))
               @@ (2 :> LocalUser("c@x.com", "Cy", "Password123!", "guest", Some(0)))
               @@ (3 :> GoogleUser("g1", "c@gmail.com", "Cy"))
    /\ sessions = (0 :> EarlierSession(0, 1)) @@ (1 :> EarlierSession(1, 2))
    /\ reset_tokens = <<>>
    /\ verification_tokens = <<>>
    /\ todos = <<>>
    /\ nextUid = 4
    /\ nextSid = 2
    /\ nextRst = 1
    /\ issuedRefresh = {generate_refresh_token(1, 0), generate_refresh_token(2, 1)}
    /\ issuedAccess = [u \in UserIds |->
                          IF u = 1 THEN Some(generate_access_token(1, "a@x.com", "sysadmin"))
                          ELSE IF u = 2 THEN Some(generate_access_token(2, "c@x.com", "guest"))
                          ELSE None]
    /\ rotated = {}
    /\ preReset = {}
    /\ resp = NoResponse
    /\ procs = [p \in ProcIds |-> Idle]

\* the accounts an administrator merges: every account but their own
MergeIds == DOMAIN users \ {1}

\* the callers of the merge endpoint
MergeCallers == {None, issuedAccess[1], issuedAccess[2]}

NextMerge ==
    \/ \E id \in MergeIds, dto \in UsernameUpdates : AdminUpdate(issuedAccess[1], id, dto)
    \/ \E p \in ProcIds, c \in MergeCallers, s \in MergeIds, d \in MergeIds :
          MergeBegin(p, c, s, d)
    \/ \E p \in ProcIds : MergeCommitDestination(p)
    \/ \E p \in ProcIds : MergeDeleteSource(p)
    \/ \E p \in ProcIds : MergeCrash(p)

\* merges whose two commits can be separated by other requests or cut short
SpecMerge == InitMerge /\ [][NextMerge]_vars

\* ------------------------------------- specification: updates of several fields
\* admin updates that name several fields, some of them acceptable
MixedUpdates ==
    {[EmptyUpdate EXCEPT !.full_name = Some("Zed")],
     [EmptyUpdate EXCEPT !.email = Some("z@x.com")],
     [EmptyUpdate EXCEPT !.full_name = Some("Zed"), !.email = Some("a@x.com")],
     [EmptyUpdate EXCEPT !.email = Some("z@x.com"), !.password = Some("password")],
     [EmptyUpdate EXCEPT !.full_name = Some("Zed"), !.role = Some("root")],
     [EmptyUpdate EXCEPT !.full_name = Some("Zed"), !.role = Some("sysadmin")],
     [EmptyUpdate EXCEPT !.role = Some("admin"), !.email_verified_at = "invalid"],
     [EmptyUpdate EXCEPT !.full_name = Some("Zed"), !.email_verified_at = "now",
                         !.unlink_local = TRUE]}

NextUpdate ==
    \/ LoginWithGoogle("g1", "c@gmail.com", "Cy")
    \/ \E c \in AdminCallers, id \in KnownIds, dto \in MixedUpdates : AdminUpdate(c, id, dto)
    \/ Tick

SpecUpdate == InitAccounts /\ [][NextUpdate]_vars

\* ------------------------------------------------ specification: local login
AccountLoginEmails == {"a@x.com", "c@x.com", "nobody@x.com"}

LoginPasswords == {"Password123!", "Wrong-Pass-789"}

\* an admin update that gives the target the local username c@x.com
LocalNameUpdates == {[EmptyUpdate EXCEPT !.email = Some("c@x.com")]}

\* a registration that leaves the e-mail address to be verified
UnverifiedRegistration ==
    [email |-> "c@x.com", password |-> "Password123!", full_name |-> "Cy",
     autoverify |-> FALSE, role |-> "guest"]

\* the verification tokens a client can present
VerificationGuesses == {<<"verification-token", 1>>}

NextLogin ==
    \/ Register(UnverifiedRegistration)
    \/ \E t \in VerificationGuesses : VerifyEmail(t)
    \/ \E e \in AccountLoginEmails, p \in LoginPasswords : Login(e, p)
    \/ \E g \in GoogleSubs : LoginWithGoogle(g, "c@gmail.com", "Cy")
    \/ \E c \in AdminCallers, id \in KnownIds, dto \in LocalNameUpdates :
          AdminUpdate(c, id, dto)

SpecLogin == InitAccounts /\ [][NextLogin]_vars

\* ------------------------------------------ specification: password changes
\* admin updates that set a new password
PasswordUpdates ==
    {[EmptyUpdate EXCEPT !.password = Some(p)] : p \in {"New-Secret-456", "password"}}

NextPassword ==
    \/ \E c \in AdminCallers, id \in KnownIds, dto \in PasswordUpdates :
          AdminUpdate(c, id, dto)
    \/ \E t \in issuedRefresh : Refresh(t)
    \/ \E e \in {"a@x.com", "b@x.com"}, p \in {"Password123!", "New-Secret-456"} :
          Login(e, p)
    \/ Tick

SpecPassword == InitAccounts /\ [][NextPassword]_vars

\* ---------------------------------------------- specification: user deletion
DeletionEmails == {"a@x.com", "b@x.com"}

NextDeletion ==
    \/ \E e \in DeletionEmails : Login(e, "Password123!")
    \/ \E t \in issuedRefresh : Refresh(t)
    \/ \E e \in DeletionEmails : RequestPasswordReset(e)
    \/ \E c \in Credentials : DeleteAccount(c)
    \/ \E c \in AdminCallers, id \in KnownIds : AdminDelete(c, id)
    \/ \E c \in AdminCallers, id \in KnownIds, dto \in UsernameUpdates : AdminUpdate(c, id, dto)
    \/ \E c \in AdminCallers, s \in KnownIds, d \in KnownIds : MergeUsers(c, s, d)

SpecDeletion == InitAccounts /\ [][NextDeletion]_vars

\* ------------------------------------------- specification: federated logins
\* the e-mails a provider reports: a fresh one and the local username of user 1
GoogleEmails == {"c@gmail.com", "a@x.com"}

MicrosoftEmails == {"c@outlook.com", "a@x.com"}

NextFederated ==
    \/ \E g \in GoogleSubs, e \in GoogleEmails : LoginWithGoogle(g, e, "Cy")
    \/ \E m \in MicrosoftIds, e \in MicrosoftEmails : LoginWithMicrosoft(m[1], m[2], e, "Cy")
    \/ \E u \in LinkStarters, g \in GoogleSubs, e \in GoogleEmails : LinkGoogle(u, g, e)
    \/ \E u \in LinkStarters, m \in MicrosoftIds, e \in MicrosoftEmails :
          LinkMicrosoft(u, m[1], m[2], e)
    \/ Login("a@x.com", "Password123!")
    \/ \E c \in Credentials : DeleteAccount(c)

SpecFederated == InitSessions /\ [][NextFederated]_vars

\* --------------------------------------------- specification: password reset
\* identifiers of a reset request: a local user, the same in another spelling,
\* the username given to a user without local login, nobody's
ResetEmails == {"a@x.com", "A@x.com ", "c@x.com", "nobody@x.com"}

ResetPasswords == {"New-Secret-456", "password"}

\* the secrets presented to reset_password: those mailed so far and one never issued
ResetGuesses == {ResetSecret(n) : n \in 1..(MaxResetTokens + 1)}

NextReset ==
    \/ \E e \in ResetEmails : RequestPasswordReset(e)
    \/ \E t \in ResetGuesses, p \in ResetPasswords : ResetPassword(t, p)
    \/ LoginWithGoogle("g1", "c@gmail.com", "Cy")
    \/ \E c \in AdminCallers, id \in KnownIds, dto \in LocalNameUpdates : AdminUpdate(c, id, dto)
    \/ Tick

SpecReset == InitAccounts /\ [][NextReset]_vars

\* ------------------------------------------------ specification: audit sink
\* A handler and its AuditService share one database session.  What the audit
\* write can do to the handler is decided by the order of the handler's
\* writes, its commits and its audit calls, so a handler is modelled by that
\* order: writes add to the session's pending changes, a commit makes the
\* pending changes durable, and an audit call is AuditService.log.
Write(change) == <<"write", change>>

Commit == <<"commit", "">>

Audit(event) == <<"audit", event>>

\* register: add(new_user); commit; log_auth
register_steps == <<Write("users.insert"), Commit, Audit("REGISTER")>>

\* login, refused: log_auth; raise
login_refused_steps == <<Audit("LOGIN_FAILURE")>>

\* login, admitted: log_auth; _create_auth_response
login_steps == <<Audit("LOGIN_SUCCESS"), Write("sessions.insert"), Commit>>

\* refresh_access_token: revoke; commit; log_auth; _create_auth_response
refresh_steps ==
    <<Write("sessions.revoked_at"), Commit, Audit("REFRESH_TOKEN_ROTATED"),
      Write("sessions.insert"), Commit>>

\* logout: revoke; commit; log_auth
logout_steps == <<Write("sessions.revoked_at"), Commit, Audit("LOGOUT")>>

\* login_with_google, first login: add(user); commit; log_auth; _create_auth_response
login_with_google_steps ==
    <<Write("users.insert"), Commit, Audit("GOOGLE_REGISTER"), Write("sessions.insert"), Commit>>

\* login_with_google, known user with a new e-mail
login_with_google_known_steps ==
    <<Write("users.google_email"), Commit, Audit("GOOGLE_EMAIL_UPDATED"),
      Audit("GOOGLE_LOGIN_SUCCESS"), Write("sessions.insert"), Commit>>

\* link_google_identity / link_microsoft_identity: set the fields; commit; log_auth
link_steps == <<Write("users.identity"), Commit, Audit("GOOGLE_LINKED")>>

\* unlink_google_identity / unlink_microsoft_identity: clear the fields; commit; log_auth
unlink_steps == <<Write("users.identity"), Commit, Audit("GOOGLE_UNLINKED")>>

\* PATCH /admin/users/{id}: set the fields; commit; log_admin
update_user_steps == <<Write("users.update"), Commit, Audit("ADMIN_USER_UPDATED")>>

\* DELETE /admin/users/{id}: log_admin; delete(user); commit
delete_user_steps == <<Audit("ADMIN_USER_DELETED"), Write("users.delete"), Commit>>

\* POST /admin/users/merge: commit the destination; delete the source; commit; log_auth
merge_users_steps ==
    <<Write("users.destination"), Commit, Write("users.delete"), Commit, Audit("ACCOUNTS_MERGED")>>

AuditedOps ==
    {"register", "login_refused", "login", "refresh", "logout", "login_with_google",
     "login_with_google_known", "link", "unlink", "update_user", "delete_user", "merge_users"}

Steps(op) ==
    CASE op = "register" -> register_steps
      [] op = "login_refused" -> login_refused_steps
      [] op = "login" -> login_steps
      [] op = "refresh" -> refresh_steps
      [] op = "logout" -> logout_steps
      [] op = "login_with_google" -> login_with_google_steps
      [] op = "login_with_google_known" -> login_with_google_known_steps
      [] op = "link" -> link_steps
      [] op = "unlink" -> unlink_steps
      [] op = "update_user" -> update_user_steps
      [] op = "delete_user" -> delete_user_steps
      [] op = "merge_users" -> merge_users_steps

\* a request at its first statement: nothing written, nothing pending
NewRun(op, sink_ok) ==
    [ op |-> op, sink_ok |-> sink_ok, pc |-> 1, committed |-> {}, pending |-> {},
      audited |-> {}, raised |-> FALSE ]

Finished(run) == run.raised \/ run.pc > Len(Steps(run.op))

\* (fault) log lets the sink's exception out to the handler
AuditService_log_uncaught(run, event) ==
    IF run.sink_ok
    THEN [run EXCEPT !.committed = run.pending, !.audited = @ \cup {event}]
    ELSE [run EXCEPT !.pending = run.committed, !.raised = TRUE]

\* AuditService.log: add(audit_log) and commit on the handler's session;
\* on an exception, rollback of that session and nothing raised
AuditService_log(run, event) ==
    IF run.sink_ok
    THEN [run EXCEPT !.committed = run.pending, !.audited = @ \cup {event}]
    ELSE [run EXCEPT !.pending = run.committed]

\* one statement of a handler
Execute(run) ==
    LET stmt == Steps(run.op)[run.pc]
        after == CASE stmt[1] = "write" -> [run EXCEPT !.pending = @ \cup {stmt[2]}]
                   [] stmt[1] = "commit" -> [run EXCEPT !.committed = run.pending]
                   [] stmt[1] = "audit" -> AuditService_log(run, stmt[2])
    IN [after EXCEPT !.pc = @ + 1]

AuditFrame ==
    UNCHANGED <<todos, users, sessions, reset_tokens, verification_tokens, now, nextUid, nextSid,
                nextRst, issuedRefresh, issuedAccess, rotated, preReset>>

\* the same request is served twice from the same store: once with a working
\* audit sink, once with a failing one
AuditedStart(op) ==
    /\ procs = <<>>
    /\ procs' = <<NewRun(op, TRUE), NewRun(op, FALSE)>>
    /\ UNCHANGED resp
    /\ AuditFrame

AuditedStep(p) ==
    /\ p \in DOMAIN procs
    /\ ~Finished(procs[p])
    /\ procs' = [procs EXCEPT ![p] = Execute(procs[p])]
    /\ UNCHANGED resp
    /\ AuditFrame

AuditedReturn ==
    /\ procs # <<>>
    /\ \A p \in DOMAIN procs : Finished(procs[p])
    /\ resp' = Response(procs[1].op, IF procs[1].raised THEN 500 ELSE 200, "")
    /\ procs' = <<>>
    /\ AuditFrame

NextAudit ==
    \/ \E op \in AuditedOps : AuditedStart(op)
    \/ \E p \in 1..2 : AuditedStep(p)
    \/ AuditedReturn

SpecAudit == InitAccounts /\ [][NextAudit]_vars

\* ------------------------------------------------ specification: admin roles
\* role changes that move a user below and back above the admin threshold
DemotionUpdates == {[EmptyUpdate EXCEPT !.role = Some(r)] : r \in Roles}

NextRoles ==
    \/ \E c \in AdminCallers, id \in KnownIds, dto \in DemotionUpdates : AdminUpdate(c, id, dto)
    \/ \E c \in AdminCallers : GetAllUsers(c)
    \/ \E c \in AdminCallers, id \in KnownIds : GetUserById(c, id)
    \/ \E c \in AdminCallers, id \in KnownIds : AdminDelete(c, id)
    \/ \E c \in AdminCallers, s \in KnownIds, d \in KnownIds : MergeUsers(c, s, d)

SpecRoles == InitAccounts /\ [][NextRoles]_vars

\* ------------------------------------------------------ specification: todos
TodoTexts == {"buy milk", "call Bob"}

\* a Guest (3) comes to exist by a first Google login; 1 and 2 are Sysadmin and Admin
NextTodos ==
    \/ LoginWithGoogle("g1", "c@gmail.com", "Cy")
    \/ \E c \in Credentials, d \in TodoTexts : CreateTodo(c, d)
    \/ \E c \in Credentials : GetAllTodos(c)
    \/ \E c \in Credentials, id \in TodoIds : GetTodo(c, id)
    \/ \E c \in Credentials, id \in TodoIds, d \in TodoTexts : UpdateTodo(c, id, d)
    \/ \E c \in Credentials, id \in TodoIds : DeleteTodo(c, id)

SpecTodos == InitAccounts /\ [][NextTodos]_vars

\* ------------------------------------------- specification: OAuth callback
CallbackRedirects == {"https://app.example/auth-complete"}

\* the states google_login and google_link can have signed so far
IssuedStates ==
    {create_state_at(t, r, "web", "login", None) : t \in 0..now, r \in CallbackRedirects}
    \cup {create_state_at(t, r, "web", "link", Some(u)) :
            t \in 0..now, r \in CallbackRedirects, u \in LinkStarters}

\* a state an attacker signs with a key of their own, naming user 1 and their own site
ForgedState ==
    jwt_encode([redirect |-> "https://evil.example", frontend |-> "web", mode |-> "link",
                current_user_id |-> Some(1), iat |-> 0, exp |-> MaxTime + 1], "attacker-key")

\* an issued state whose payload was rewritten: the signature matches no key
TamperedStates ==
    {[payload |-> [st.payload EXCEPT !.redirect = "https://evil.example"],
      key |-> "signature-mismatch"] : st \in IssuedStates}

CallbackStates == IssuedStates \cup TamperedStates \cup {ForgedState}

GoogleInfos ==
    {None} \cup {Some([sub |-> g, email |-> "c@gmail.com", name |-> "Cy"]) : g \in {"g1", "g2"}}

NextCallback ==
    \/ \E st \in CallbackStates, info \in GoogleInfos : GoogleCallback(st, info)
    \/ Tick

SpecCallback == InitAccounts /\ [][NextCallback]_vars

\* ------------------------------------------- specification: e-mail verification
VerificationPresented == {VerificationSecret(n) : n \in 1..(MaxVerificationTokens + 1)}

NextVerification ==
    \/ Register(UnverifiedRegistration)
    \/ \E n \in 1..MaxVerificationTokens, u \in UserIds : SendVerificationEmail(n, u)
    \/ \E t \in VerificationPresented : VerifyEmail(t)
    \/ \E e \in AccountLoginEmails : Login(e, "Password123!")
    \/ Tick

SpecVerification == InitAccounts /\ [][NextVerification]_vars

\* ------------------------------------------- specification: session expiry
NextExpiry ==
    \/ \E e \in {"a@x.com", "b@x.com"} : Login(e, "Password123!")
    \/ \E e \in {"a@x.com", "b@x.com"} : LoginAcrossTick(e, "Password123!")
    \/ \E t \in issuedRefresh \cup {ForgedRefresh} : Refresh(t)
    \/ Tick

SpecExpiry == InitSessions /\ [][NextExpiry]_vars

\* ------------------------------------------- specification: token verification
\* the OAuth state tokens the service can have signed so far
StateTokens ==
    {create_state_at(t, "/", "web", m, c) :
        t \in 0..now, m \in {"login", "link"}, c \in {None, Some(1)}}

\* the tokens a client can present: the issued ones and the forged ones
PresentedTokens ==
    {Val(issuedAccess[u]) : u \in {v \in UserIds : issuedAccess[v] # None}}
    \cup issuedRefresh \cup StateTokens \cup {ForgedAccess, ForgedRefresh}

NextTokens ==
    \/ \E e \in {"a@x.com", "b@x.com"} : Login(e, "Password123!")
    \/ \E t \in issuedRefresh : Refresh(t)
    \/ \E t \in PresentedTokens : VerifyAccess(t)
    \/ \E t \in PresentedTokens : VerifyRefresh(t)
    \/ Tick

SpecTokens == InitSessions /\ [][NextTokens]_vars

\* ------------------------------------------------------ claims on sessions
\* C1: a refresh token is good for one rotation: a refresh presenting a token of
\* a usable session succeeds with a different refresh token, and a refresh
\* presenting a token already rotated is answered 401, whatever happened since
\* (a rotated token never again belongs to a usable session).
C1_RefreshOneTimeUse ==
    /\ \A t \in rotated : ~TokenUsable(t)
    /\ resp.op = "refresh" =>
          /\ resp.reused => resp.status = 401
          /\ resp.usable =>
                /\ resp.status = 200
                /\ resp.refresh # None
                /\ Val(resp.refresh) # resp.token

C1_Witness ==
    /\ resp.op = "refresh"
    /\ resp.reused
    /\ resp.token \in issuedRefresh
    /\ resp.status = 401

\* C2: after a successful password reset every session of the user is revoked,
\* no refresh token issued to the user before the reset belongs to a usable
\* session, and a rotation presenting such a token is answered 401.
C2_ResetRevokesSessions ==
    /\ (resp.op = "reset_password" /\ resp.status = 200) =>
          \A s \in DOMAIN sessions :
              sessions[s].user_id = Val(resp.user) => sessions[s].revoked_at # None
    /\ \A t \in preReset : ~TokenUsable(t)
    /\ (resp.op = "refresh" /\ resp.token \in preReset) => resp.status = 401

C2_Witness ==
    /\ resp.op = "refresh"
    /\ resp.status = 401
    /\ resp.detail = "Refresh token has been revoked"
    /\ ~resp.reused
    /\ Cardinality({t \in preReset : t.payload.sub = resp.token.payload.sub}) = 2
    /\ resp.token \in preReset

\* ------------------------------------------- claims on roles and identities
Sysadmins(table) == {u \in DOMAIN table : table[u].role = "sysadmin"}

\* a step of a handler whose caller is not an authenticated Sysadmin
NonSysadminStep ==
    \/ \E dto \in RegisterDtos : Register(dto)
    \/ \E c \in Credentials, id \in UserIds, dto \in RoleUpdates :
          ActorRole(c) # Some("sysadmin") /\ AdminUpdate(c, id, dto)
    \/ \E c \in Credentials, id \in UserIds :
          ActorRole(c) # Some("sysadmin") /\ AdminDelete(c, id)

\* C3: a step taken by a caller who is not a Sysadmin (unauthenticated, Guest
\* or Admin) never enlarges the set of users whose role is Sysadmin.
C3_SysadminsNeverGrow ==
    [][NonSysadminStep => Sysadmins(users') \subseteq Sysadmins(users)]_vars

SetsRoleToSysadmin == {dto \in RoleUpdates : dto.role = Some("sysadmin")}

OnlyRole(dto) == dto = [EmptyUpdate EXCEPT !.role = dto.role]

C5_AdminCannotTouchSysadmin ==
    [][\A c \in Credentials, id \in DOMAIN users :
          (ActorRole(c) = Some("admin") /\ users[id].role = "sysadmin") =>
             /\ \A dto \in RoleUpdates :
                   (resp'.op = "admin_update" /\ AdminUpdate(c, id, dto)) =>
                      resp'.status = 403 /\ id \in DOMAIN users' /\ users'[id] = users[id]
             /\ (resp'.op = "admin_delete" /\ AdminDelete(c, id)) =>
                   resp'.status = 403 /\ id \in DOMAIN users' /\ users'[id] = users[id]]_vars

\* an Admin was refused the deletion of a Sysadmin, who still exists
C5_Witness ==
    /\ resp.op = "admin_delete"
    /\ resp.status = 403
    /\ resp.detail = "Admins cannot delete sysadmin users"
    /\ Sysadmins(users) # {}

\* the three identity blocks, present when their key fields hold a value
LocalPresent(user) == user.local_enabled /\ user.local_username \notin {None, Some("")}

GooglePresent(user) == user.google_sub \notin {None, Some("")}

MicrosoftPresent(user) ==
    user.ms_oid \notin {None, Some("")} /\ user.ms_tid \notin {None, Some("")}

HasIdentity(user) == LocalPresent(user) \/ GooglePresent(user) \/ MicrosoftPresent(user)

\* C6: every existing user has at least one identity block: local
\* authentication enabled with a username, a Google sub, or a Microsoft
\* oid and tid.
C6_AtLeastOneIdentity == \A u \in DOMAIN users : HasIdentity(users[u])

IdentityCount(user) ==
    (IF LocalPresent(user) THEN 1 ELSE 0)
    + (IF GooglePresent(user) THEN 1 ELSE 0)
    + (IF MicrosoftPresent(user) THEN 1 ELSE 0)

\* C7: no two users hold the same non-null local_username, the same non-null
\* google_sub, or the same (ms_tid, ms_oid) pair with both parts non-null.
C7_UniqueIdentities ==
    \A u \in DOMAIN users, v \in DOMAIN users :
        u # v =>
          /\ users[u].local_username = None \/ users[u].local_username # users[v].local_username
          /\ users[u].google_sub = None \/ users[u].google_sub # users[v].google_sub
          /\ \/ users[u].ms_tid = None
             \/ users[u].ms_oid = None
             \/ <<users[u].ms_tid, users[u].ms_oid>> # <<users[v].ms_tid, users[v].ms_oid>>

\* an admin update that passed its own username check was rejected by the
\* store, because a registration committed the same username in between
C7_Witness ==
    \E p \in ProcIds, q \in ProcIds :
        /\ procs[p].op = "admin_update" /\ procs[p].pc = "done" /\ procs[p].status = 500
        /\ procs[q].op = "register" /\ procs[q].status = 201
        /\ q \in procs[p].overlapped

CreatingOps == {"register", "login_with_google", "login_with_microsoft"}

\* the identifier a creating request claims, as the store will hold it
Identifier(p) ==
    IF procs[p].op = "register" THEN strip(lower(procs[p].req.email)) ELSE procs[p].req

\* the finished requests, p among them, that claim the identifier of p and
\* found it unclaimed when they looked it up
Rivals(p) ==
    {q \in ProcIds : /\ procs[q].op = procs[p].op
                     /\ procs[q].pc = "done"
                     /\ procs[q].passed
                     /\ Identifier(q) = Identifier(p)}

\* two finished requests that were both past their checks, neither having
\* found the identifier claimed, at the same moment
Concurrent(p, q) ==
    /\ p # q
    /\ procs[p].pc = "done" /\ procs[q].pc = "done"
    /\ procs[p].passed /\ procs[q].passed
    /\ q \in procs[p].overlapped

\* C8: of the register requests whose identifiers are equal after lowercasing
\* and trimming and that all found the identifier unclaimed, and of the
\* first-time federated logins with the same provider id, exactly one creates
\* a user and every other one fails; two concurrent requests are the least case.
C8_ExactlyOneCreates ==
    \A p \in ProcIds :
        (procs[p].pc = "done" /\ procs[p].passed /\ procs[p].op \in CreatingOps) =>
            /\ Cardinality({q \in Rivals(p) : procs[q].created}) = 1
            /\ \A q \in Rivals(p) : ~procs[q].created => procs[q].status >= 400

\* two concurrent registrations spelled differently, one of which created the user
C8_Witness ==
    \E p \in ProcIds, q \in ProcIds :
        /\ Concurrent(p, q)
        /\ procs[p].op = "register" /\ procs[q].op = "register"
        /\ procs[p].req.email # procs[q].req.email
        /\ procs[p].created /\ ~procs[q].created

\* C9: a register request with an acceptable password that has returned
\* without creating a user has answered Conflict.
C9_LoserGetsConflict ==
    \A p \in ProcIds :
        (procs[p].op = "register" /\ procs[p].pc = "done" /\ ~procs[p].created) =>
            procs[p].status = 409

Overlap(source_user, destination_user) ==
    (IF LocalPresent(source_user) /\ LocalPresent(destination_user)
     THEN {"local"} ELSE {})
    \cup (IF GooglePresent(source_user) /\ GooglePresent(destination_user)
          THEN {"google"} ELSE {})
    \cup (IF MicrosoftPresent(source_user) /\ MicrosoftPresent(destination_user)
          THEN {"microsoft"} ELSE {})

\* C10: a merge requested by a Sysadmin for two distinct existing users who
\* share at least one provider answers Conflict, the error names exactly the
\* providers present on both, and the store is left as it was.
C10_MergeConflict ==
    [][resp'.op = "merge_users" =>
          \A c \in Credentials :
             ActorRole(c) = Some("sysadmin") =>
                \A s \in DOMAIN users, d \in DOMAIN users :
                   (s # d /\ Overlap(users[s], users[d]) # {} /\ MergeUsers(c, s, d)) =>
                      /\ resp'.status = 409
                      /\ {resp'.conflicts[i] : i \in DOMAIN resp'.conflicts}
                            = Overlap(users[s], users[d])
                      /\ users' = users]_vars

\* a merge was refused naming two providers while one of the two users holds
\* a third provider that the other lacks
C10_Witness ==
    /\ resp.op = "merge_users"
    /\ resp.status = 409
    /\ Len(resp.conflicts) = 2
    /\ \E s \in DOMAIN users, d \in DOMAIN users :
          /\ s # d
          /\ Cardinality(Overlap(users[s], users[d])) = 2
          /\ IdentityCount(users[s]) = 3

\* ------------------------------------------------- claims on merge and unlink
LocalBlock(user) == <<user.local_enabled, user.local_username, user.local_password_hash>>

GoogleBlock(user) == <<user.google_sub, user.google_email>>

MicrosoftBlock(user) == <<user.ms_oid, user.ms_tid, user.ms_email>>

\* the destination as the merge of source into it has to leave it
MergedAsSpecified(source_user, destination_user, result) ==
    /\ LocalBlock(result) =
          IF LocalPresent(source_user) /\ ~LocalPresent(destination_user)
          THEN LocalBlock(source_user) ELSE LocalBlock(destination_user)
    /\ GoogleBlock(result) =
          IF GooglePresent(source_user) /\ ~GooglePresent(destination_user)
          THEN GoogleBlock(source_user) ELSE GoogleBlock(destination_user)
    /\ MicrosoftBlock(result) =
          IF MicrosoftPresent(source_user) /\ ~MicrosoftPresent(destination_user)
          THEN MicrosoftBlock(source_user) ELSE MicrosoftBlock(destination_user)
    /\ result.email_verified_at =
          IF destination_user.email_verified_at = None
          THEN source_user.email_verified_at ELSE destination_user.email_verified_at

\* C11: a merge requested by a Sysadmin for two distinct existing users that
\* share no provider succeeds; afterwards the destination keeps its own
\* identity blocks, holds the whole block of every provider that only the
\* source had, has adopted the source's verification if it had none, and the
\* source is gone.
C11_MergeCopiesIdentities ==
    [][resp'.op = "merge_users" =>
          \A c \in Credentials :
             ActorRole(c) = Some("sysadmin") =>
                \A s \in DOMAIN users, d \in DOMAIN users :
                   (s # d /\ Overlap(users[s], users[d]) = {} /\ MergeUsers(c, s, d)) =>
                      /\ resp'.status = 200
                      /\ s \notin DOMAIN users'
                      /\ d \in DOMAIN users'
                      /\ MergedAsSpecified(users[s], users[d], users'[d])]_vars

OnlyUnlinkLocal == [EmptyUpdate EXCEPT !.unlink_local = TRUE]

\* the caller may modify the target: Admin or Sysadmin, and not an Admin
\* acting on a Sysadmin
MayModify(c, id) ==
    /\ ActorRole(c) \in {Some("admin"), Some("sysadmin")}
    /\ ~(ActorRole(c) = Some("admin") /\ users[id].role = "sysadmin")

\* C12: unlinking the only identity block of a user answers BadRequest and
\* leaves the store unchanged: Google and Microsoft unlinked by the
\* authenticated user, local unlinked by an admin update of a caller who may
\* modify the user.
C12_UnlinkLastIdentity ==
    [][/\ resp'.op = "unlink_google" =>
             \A c \in Credentials \ {None} :
                LET u == Val(c).payload.sub IN
                (/\ TokenStatus(c) = 0 /\ u \in DOMAIN users
                 /\ GooglePresent(users[u]) /\ IdentityCount(users[u]) = 1
                 /\ UnlinkGoogle(c)) => (resp'.status = 400 /\ users' = users)
       /\ resp'.op = "unlink_microsoft" =>
             \A c \in Credentials \ {None} :
                LET u == Val(c).payload.sub IN
                (/\ TokenStatus(c) = 0 /\ u \in DOMAIN users
                 /\ MicrosoftPresent(users[u]) /\ IdentityCount(users[u]) = 1
                 /\ UnlinkMicrosoft(c)) => (resp'.status = 400 /\ users' = users)
       /\ resp'.op = "admin_update" =>
             \A c \in Credentials, id \in DOMAIN users :
                (/\ MayModify(c, id)
                 /\ LocalPresent(users[id]) /\ IdentityCount(users[id]) = 1
                 /\ AdminUpdate(c, id, OnlyUnlinkLocal)) =>
                      (resp'.status = 400 /\ users' = users)]_vars

\* a user whose only identity is Google was refused the unlinking of it
C12_Witness ==
    /\ resp.op = "unlink_google"
    /\ resp.status = 400
    /\ \E u \in DOMAIN users :
          /\ GooglePresent(users[u]) /\ IdentityCount(users[u]) = 1
          /\ issuedAccess[u] # None

\* ------------------------------------------------------------ claims on login
\* the four ways a login is refused before the verification check
LoginRefusedCase(login_email, password) ==
    LET found == ByUsername(users, Normalize(login_email)) IN
    \/ found = {}
    \/ \E u \in found :
          \/ ~users[u].local_enabled
          \/ users[u].local_password_hash = None
          \/ ~verify_password(Val(users[u].local_password_hash), password)

\* C13: a login refused because the identifier is unknown, local
\* authentication is disabled, no password hash is set or the password is
\* wrong answers Unauthorized with the message "Invalid credentials" in all
\* four cases.
C13_UniformLoginFailure ==
    [][resp'.op = "login" =>
          \A e \in AccountLoginEmails, p \in LoginPasswords :
             (LoginRefusedCase(e, p) /\ Login(e, p)) =>
                (resp'.status = 401 /\ resp'.detail = "Invalid credentials")]_vars

\* a verification token of the user that verifyEmail would accept
ValidVerificationToken(table, user_id) ==
    \E t \in DOMAIN table :
        /\ table[t].user_id = user_id
        /\ table[t].verified_at = None
        /\ ~(now > table[t].expires_at)

\* C14: a user registered without autoverify is refused at login with
\* Forbidden, no session being created, and holds a valid verification token
\* with which verifyEmail can succeed and open the login.
C14_VerificationOpensLogin ==
    [][/\ \A u \in DOMAIN users' :
             (LocalPresent(users'[u]) /\ users'[u].email_verified_at = None) =>
                ValidVerificationToken(verification_tokens', u)
       /\ resp'.op = "login" =>
             \A e \in AccountLoginEmails :
                ((\E u \in ByUsername(users, Normalize(e)) :
                        /\ LocalPresent(users[u])
                        /\ users[u].email_verified_at = None)
                 /\ Login(e, "Password123!")) =>
                      (resp'.status = 403 /\ sessions' = sessions)]_vars

\* ------------------------------------------------ claims on password changes
\* C15: when an admin update has set a user's password, every refresh session
\* that user had before the update is revoked (so that its refresh token is
\* refused at rotation).
C15_PasswordChangeRevokes ==
    [][resp'.op = "admin_update" =>
          \A c \in Credentials, id \in DOMAIN users, dto \in PasswordUpdates :
             (AdminUpdate(c, id, dto) /\ resp'.status = 200) =>
                \A s \in DOMAIN sessions :
                   sessions[s].user_id = id =>
                      (s \in DOMAIN sessions' /\ sessions'[s].revoked_at # None)]_vars

\* ----------------------------------------------------------- claims on logout
\* the session rows whose stored hash is that of the token
SessionsOf(table, refresh_token) ==
    {s \in DOMAIN table : table[s].refresh_token_hash = _hash_token(refresh_token)}

\* C16: a logout by an authenticated caller answers success whatever the
\* token (unknown, forged, expired, revoked) and leaves no unrevoked session
\* for it; a revoked session stays revoked, no new session carries a token
\* issued before, and a refresh presenting a token without an unrevoked
\* session answers Unauthorized -- so after logout(T), refresh(T) is refused
\* for good.
C16_LogoutThenRefreshFails ==
    [][/\ resp'.op = "logout" =>
             \A c \in Credentials, t \in issuedRefresh \cup {ForgedRefresh} :
                (AuthStatus(c) = 0 /\ Logout(c, t)) =>
                   /\ resp'.status = 200
                   /\ \A s \in SessionsOf(sessions', t) : sessions'[s].revoked_at # None
       /\ \A s \in DOMAIN sessions \cap DOMAIN sessions' :
             /\ sessions'[s].refresh_token_hash = sessions[s].refresh_token_hash
             /\ sessions[s].revoked_at # None => sessions'[s].revoked_at # None
       /\ \A s \in DOMAIN sessions' \ DOMAIN sessions :
             \A t \in issuedRefresh \cup {ForgedRefresh} : s \notin SessionsOf(sessions', t)
       /\ resp'.op = "refresh" =>
             \A t \in issuedRefresh \cup {ForgedRefresh} :
                ((\A s \in SessionsOf(sessions, t) : sessions[s].revoked_at # None)
                    /\ Refresh(t)) => resp'.status = 401]_vars

\* a refresh was refused because the session of its token had been revoked,
\* by a logout: the token was never rotated and predates no password reset
C16_Witness ==
    /\ resp.op = "refresh"
    /\ resp.status = 401
    /\ resp.detail = "Refresh token has been revoked"
    /\ ~resp.reused
    /\ resp.token \notin preReset

\* --------------------------------------------------- claims on user deletion
\* the ids handed out to users that exist no more
DeletedUsers == {u \in UserIds : u < nextUid /\ u \notin DOMAIN users}

RowsOf(table, user_id) == {k \in DOMAIN table : table[k].user_id = user_id}

GoogleHolders(table, google_sub) ==
    {u \in DOMAIN table : table[u].google_sub = Some(google_sub)}

MicrosoftHolders(table, ms_oid, ms_tid) ==
    {u \in DOMAIN table : table[u].ms_oid = Some(ms_oid) /\ table[u].ms_tid = Some(ms_tid)}

\* the step opened a session for the user and for nobody else
LoggedInAs(user_id) ==
    /\ DOMAIN sessions' = DOMAIN sessions \cup {nextSid}
    /\ sessions'[nextSid].user_id = user_id
    /\ \E t \in issuedRefresh' \ issuedRefresh : t.payload.sub = user_id
    /\ issuedAccess'[user_id] # None /\ Val(issuedAccess'[user_id]).payload.sub = user_id

\* C18: a federated login with a provider id that a user holds succeeds as
\* that user, creates no user and leaves the cached provider e-mail equal to
\* the e-mail supplied; and no step moves a provider id to another user or
\* gives it a second holder.
C18_FederatedLoginSameUser ==
    [][/\ resp'.op = "login_with_google" =>
             \A g \in GoogleSubs, e \in GoogleEmails :
                (GoogleHolders(users, g) # {} /\ LoginWithGoogle(g, e, "Cy")) =>
                   /\ resp'.status = 200
                   /\ DOMAIN users' = DOMAIN users
                   /\ \A u \in GoogleHolders(users, g) :
                         /\ LoggedInAs(u)
                         /\ users'[u] = [users[u] EXCEPT !.google_email = Some(e)]
                   /\ \A u \in DOMAIN users \ GoogleHolders(users, g) : users'[u] = users[u]
       /\ resp'.op = "login_with_microsoft" =>
             \A m \in MicrosoftIds, e \in MicrosoftEmails :
                (MicrosoftHolders(users, m[1], m[2]) # {}
                    /\ LoginWithMicrosoft(m[1], m[2], e, "Cy")) =>
                   /\ resp'.status = 200
                   /\ DOMAIN users' = DOMAIN users
                   /\ \A u \in MicrosoftHolders(users, m[1], m[2]) :
                         /\ LoggedInAs(u)
                         /\ users'[u] = [users[u] EXCEPT !.ms_email = Some(e)]
                   /\ \A u \in DOMAIN users \ MicrosoftHolders(users, m[1], m[2]) :
                         users'[u] = users[u]
       /\ \A g \in GoogleSubs :
             /\ Cardinality(GoogleHolders(users', g)) <= 1
             /\ GoogleHolders(users, g) # {} => GoogleHolders(users', g) \subseteq GoogleHolders(users, g)
       /\ \A m \in MicrosoftIds :
             /\ Cardinality(MicrosoftHolders(users', m[1], m[2])) <= 1
             /\ MicrosoftHolders(users, m[1], m[2]) # {} =>
                   MicrosoftHolders(users', m[1], m[2]) \subseteq MicrosoftHolders(users, m[1], m[2])]_vars

\* a user created by a Google login has logged in a second time, with the
\* other e-mail
C18_Witness ==
    /\ resp.op = "login_with_google"
    /\ resp.status = 200
    /\ \E u \in DOMAIN users :
          /\ users[u].google_sub # None
          /\ users[u].local_username = None
          /\ users[u].google_email = Some("a@x.com")
          /\ Cardinality(RowsOf(sessions, u)) = 2

\* the row of a user that holds the Google identity and nothing else
OnlyGoogle(user, google_sub, google_email) ==
    /\ user.google_sub = Some(google_sub) /\ user.google_email = Some(google_email)
    /\ user.local_username = None /\ user.local_password_hash = None
    /\ user.ms_oid = None /\ user.ms_tid = None /\ user.ms_email = None

\* the row of a user that holds the Microsoft identity and nothing else
OnlyMicrosoft(user, ms_oid, ms_tid, ms_email) ==
    /\ user.ms_oid = Some(ms_oid) /\ user.ms_tid = Some(ms_tid) /\ user.ms_email = Some(ms_email)
    /\ user.local_username = None /\ user.local_password_hash = None
    /\ user.google_sub = None /\ user.google_email = None

\* C19: a federated login with a provider id nobody holds succeeds, adds
\* exactly one user -- a verified Guest with that provider's identity block
\* and no other -- logs in as that user and changes no existing user, also
\* when the supplied e-mail is an existing user's username or cached e-mail.
C19_FederatedLoginCreatesUser ==
    [][/\ resp'.op = "login_with_google" =>
             \A g \in GoogleSubs, e \in GoogleEmails :
                (GoogleHolders(users, g) = {} /\ LoginWithGoogle(g, e, "Cy")) =>
                   /\ resp'.status = 200
                   /\ DOMAIN users' = DOMAIN users \cup {nextUid}
                   /\ nextUid \notin DOMAIN users
                   /\ OnlyGoogle(users'[nextUid], g, e)
                   /\ users'[nextUid].role = "guest"
                   /\ users'[nextUid].email_verified_at # None
                   /\ LoggedInAs(nextUid)
                   /\ \A u \in DOMAIN users : users'[u] = users[u]
       /\ resp'.op = "login_with_microsoft" =>
             \A m \in MicrosoftIds, e \in MicrosoftEmails :
                (MicrosoftHolders(users, m[1], m[2]) = {}
                    /\ LoginWithMicrosoft(m[1], m[2], e, "Cy")) =>
                   /\ resp'.status = 200
                   /\ DOMAIN users' = DOMAIN users \cup {nextUid}
                   /\ nextUid \notin DOMAIN users
                   /\ OnlyMicrosoft(users'[nextUid], m[1], m[2], e)
                   /\ users'[nextUid].role = "guest"
                   /\ users'[nextUid].email_verified_at # None
                   /\ LoggedInAs(nextUid)
                   /\ \A u \in DOMAIN users : users'[u] = users[u]]_vars

\* a first-time Google login reported the username of local user 1 and made
\* a separate user
C19_Witness ==
    /\ resp.op = "login_with_google"
    /\ resp.status = 200
    /\ 1 \in DOMAIN users /\ users[1].local_username = Some("a@x.com")
    /\ users[1].google_sub = None
    /\ \E u \in DOMAIN users \ {1} :
          /\ \E g \in GoogleSubs : OnlyGoogle(users[u], g, "a@x.com")
          /\ Cardinality(RowsOf(sessions, u)) = 1

\* ------------------------------------------------- claims on identity links
\* C20: linking a provider identity answers 404 for a target user that does
\* not exist and 409 when another user holds the identity, and changes no
\* user in either case; otherwise it succeeds and the target user is the one
\* holder of the identity.
C20_LinkIdentity ==
    [][/\ resp'.op = "link_google" =>
             \A u \in LinkStarters, g \in GoogleSubs, e \in GoogleEmails :
                LinkGoogle(u, g, e) =>
                   IF u \notin DOMAIN users
                   THEN resp'.status = 404 /\ users' = users
                   ELSE IF GoogleHolders(users, g) \ {u} # {}
                   THEN resp'.status = 409 /\ users' = users
                   ELSE /\ resp'.status = 200
                        /\ GoogleHolders(users', g) = {u}
                        /\ users'[u].google_email = Some(e)
                        /\ \A v \in DOMAIN users \ {u} : users'[v] = users[v]
       /\ resp'.op = "link_microsoft" =>
             \A u \in LinkStarters, m \in MicrosoftIds, e \in MicrosoftEmails :
                LinkMicrosoft(u, m[1], m[2], e) =>
                   IF u \notin DOMAIN users
                   THEN resp'.status = 404 /\ users' = users
                   ELSE IF MicrosoftHolders(users, m[1], m[2]) \ {u} # {}
                   THEN resp'.status = 409 /\ users' = users
                   ELSE /\ resp'.status = 200
                        /\ MicrosoftHolders(users', m[1], m[2]) = {u}
                        /\ users'[u].ms_email = Some(e)
                        /\ \A v \in DOMAIN users \ {u} : users'[v] = users[v]]_vars

\* a Google identity was linked to local user 1 while another user holds the
\* other Google identity
C20_Witness ==
    /\ resp.op = "link_google"
    /\ resp.status = 200
    /\ 1 \in DOMAIN users
    /\ users[1].local_username # None
    /\ users[1].google_sub # None
    /\ \E v \in DOMAIN users \ {1} :
          users[v].google_sub # None /\ users[v].google_sub # users[1].google_sub

\* ------------------------------------------------- claims on password reset
LocalAccounts(table, identifier) ==
    {u \in DOMAIN table : /\ table[u].local_username = Some(Normalize(identifier))
                          /\ table[u].local_enabled}

\* C21: a reset request is answered with the same success response for every
\* identifier; when the identifier names a user with local login enabled the
\* one thing it changes is that user's reset tokens, where it leaves exactly
\* one new token; otherwise it changes nothing in the store.
C21_ResetRequestUniform ==
    [][resp'.op = "request_password_reset" =>
          \A e \in ResetEmails :
             RequestPasswordReset(e) =>
                /\ resp' = Response("request_password_reset", 200,
                                    "Password reset request processed")
                /\ users' = users /\ sessions' = sessions
                /\ verification_tokens' = verification_tokens
                /\ IF LocalAccounts(users, e) = {}
                   THEN reset_tokens' = reset_tokens
                   ELSE \A u \in LocalAccounts(users, e) :
                           /\ \E k \in RowsOf(reset_tokens', u) :
                                 /\ k \notin DOMAIN reset_tokens
                                 /\ reset_tokens'[k].used_at = None
                           /\ \A v \in DOMAIN users \ {u} :
                                 /\ RowsOf(reset_tokens', v) = RowsOf(reset_tokens, v)
                                 /\ \A k \in RowsOf(reset_tokens, v) :
                                       reset_tokens'[k] = reset_tokens[k]]_vars

\* a request naming a user without local login was answered while the one
\* reset token in the store belongs to somebody else
C21_Witness ==
    /\ resp.op = "request_password_reset"
    /\ \E u \in DOMAIN users :
          /\ users[u].local_username = Some("c@x.com")
          /\ ~users[u].local_enabled
          /\ RowsOf(reset_tokens, u) = {}
    /\ \E v \in DOMAIN users : RowsOf(reset_tokens, v) # {}

\* the reset-token rows that answer to the secret
ResetRowsOf(table, token) ==
    {k \in DOMAIN table : table[k].token_hash = _hash_token(token)}

\* the rows of the secret that can still be redeemed
Redeemable(table, token, time) ==
    {k \in ResetRowsOf(table, token) : table[k].used_at = None /\ time <= table[k].expires_at}

\* C22: a reset with a secret that has no unused, unexpired row -- unknown,
\* expired or redeemed before -- answers 400 and changes no user; a successful
\* reset marks the row of its secret used; a row keeps its secret, never loses
\* used_at, and no new row carries a secret issued before. So a secret is
\* redeemed at most once.
C22_ResetTokenSingleUse ==
    [][/\ resp'.op = "reset_password" =>
             \A t \in ResetGuesses, p \in ResetPasswords :
                ResetPassword(t, p) =>
                   /\ Redeemable(reset_tokens, t, now) = {} =>
                         resp'.status = 400 /\ users' = users /\ sessions' = sessions
                   /\ resp'.status = 200 => Redeemable(reset_tokens', t, now) = {}
                   /\ resp'.status \in {200, 400}
       /\ \A k \in DOMAIN reset_tokens \cap DOMAIN reset_tokens' :
             /\ reset_tokens'[k].token_hash = reset_tokens[k].token_hash
             /\ reset_tokens'[k].expires_at = reset_tokens[k].expires_at
             /\ reset_tokens[k].used_at # None => reset_tokens'[k].used_at # None
       /\ \A k \in DOMAIN reset_tokens' \ DOMAIN reset_tokens :
             \A n \in 1..(nextRst - 1) : k \notin ResetRowsOf(reset_tokens', ResetSecret(n))
       /\ now' >= now]_vars

\* a secret that was redeemed is presented again and refused
C22_Witness ==
    /\ resp.op = "reset_password"
    /\ resp.status = 400
    /\ \E k \in ResetRowsOf(reset_tokens, resp.token) : reset_tokens[k].used_at # None

StoredRole(credentials) == users[Val(credentials).payload.sub].role

StoreSame ==
    /\ users' = users /\ sessions' = sessions
    /\ reset_tokens' = reset_tokens /\ verification_tokens' = verification_tokens

\* the answer given to a caller whose role is below the operation's minimum
Refused == resp'.status = 403 /\ resp'.detail = "" /\ StoreSame

\* C25: for an authenticated caller the admission to an admin operation
\* follows the stored role, whatever role the access token claims: below
\* Admin, listing, viewing, updating and deleting are answered 403 and change
\* nothing, and from Admin up they are not; below Sysadmin a merge is
\* answered 403 and changes nothing, and a Sysadmin's merge is not.
C25_StoredRoleDecides ==
    [][\A c \in AdminCallers :
          AuthStatus(c) = 0 =>
             /\ \A id \in KnownIds, dto \in DemotionUpdates :
                   AdminUpdate(c, id, dto) =>
                      (Refused <=> StoredRole(c) \notin {"admin", "sysadmin"})
             /\ GetAllUsers(c) =>
                   /\ Refused <=> StoredRole(c) \notin {"admin", "sysadmin"}
                   /\ ~Refused => resp'.status = 200 /\ resp'.listed = DOMAIN users
             /\ \A id \in KnownIds :
                   /\ GetUserById(c, id) =>
                         /\ Refused <=> StoredRole(c) \notin {"admin", "sysadmin"}
                         /\ ~Refused => resp'.status \in {200, 404}
                   /\ AdminDelete(c, id) =>
                         (Refused <=> StoredRole(c) \notin {"admin", "sysadmin"})
             /\ \A s \in KnownIds, d \in KnownIds :
                   MergeUsers(c, s, d) => (Refused <=> StoredRole(c) # "sysadmin")]_vars

\* the user who logged in as Admin is stored as Guest and has been refused
C25_Witness ==
    /\ resp.op = "get_all_users"
    /\ resp.status = 403
    /\ resp.actor = issuedAccess[2]
    /\ 2 \in DOMAIN users /\ users[2].role = "guest"
    /\ Val(issuedAccess[2]).payload.role = "admin"

\* ---------------------------------------------------------- claims on todos
OwnTodos(user_id) == {t \in DOMAIN todos : todos[t].owner_id = user_id}

IssuedAccess(token) == \E u \in UserIds : issuedAccess[u] = Some(token)

\* C27: verify_access_token accepts a presented token exactly when it is an
\* access token the service issued and its exp has not passed, and then returns
\* the payload of the token, which carries the sub, email and role it was issued
\* for; a token signed with another key (a refresh token, an OAuth state token,
\* an attacker's token) or an expired one is refused; verify_refresh_token does
\* the same with the refresh key.
C27_TokenKeysSeparate ==
    [][ /\ \A t \in PresentedTokens :
            /\ VerifyAccess(t) =>
                 /\ resp'.status = 200 <=> (IssuedAccess(t) /\ t.payload.exp > now)
                 /\ resp'.status = 200 => resp'.payload = Some(t.payload)
                 /\ (t.key # JWT_ACCESS_SECRET \/ t.payload.exp <= now) => resp'.status = 401
                 /\ t \in issuedRefresh \cup StateTokens => resp'.status = 401
            /\ VerifyRefresh(t) =>
                 /\ resp'.status = 200 <=> (t \in issuedRefresh /\ t.payload.exp > now)
                 /\ resp'.status = 200 => resp'.payload = Some(t.payload)
                 /\ (t.key # JWT_REFRESH_SECRET \/ t.payload.exp <= now) => resp'.status = 401
                 /\ (IssuedAccess(t) \/ t \in StateTokens) => resp'.status = 401
        /\ \A u \in UserIds :
            issuedAccess'[u] # issuedAccess[u] =>
                LET decoded == jwt_decode(Val(issuedAccess'[u]), JWT_ACCESS_SECRET)
                IN /\ decoded.ok
                   /\ Val(decoded.payload).sub = u
                   /\ Val(decoded.payload).email = email(users'[u])
                   /\ Val(decoded.payload).role = users'[u].role
      ]_vars

\* verify_access_token refused a refresh token that verify_refresh_token accepts
C27_Witness ==
    /\ resp.op = "verify_access_token"
    /\ resp.status = 401
    /\ resp.token \in issuedRefresh
    /\ verify_refresh_token(resp.token)

\* ------------------------------------------------ claims on the OAuth state
\* the state was signed with the state key at most StateExpiryTicks ago
StateGenuine(state) ==
    /\ state.key = API_SERVER_OAUTH_KEY
    /\ state \in IssuedStates
    /\ now < state.payload.iat + StateExpiryTicks

\* C28: the callback takes the redirect target, the mode and the user to link
\* from the state only when the state is signed with the state key and not
\* older than its lifetime: a link changes only the user the state names and
\* opens no session, a login links nothing to an existing user; with any other
\* state no user is created, no identity is linked, no session is issued and
\* the redirect goes to the default URL.
C28_CallbackTrustsOnlyVerifiedState ==
    [][ \A st \in CallbackStates, info \in GoogleInfos :
          GoogleCallback(st, info) =>
            IF StateGenuine(st)
            THEN /\ resp'.redirect = st.payload.redirect
                 /\ st.payload.mode = "link" =>
                      /\ DOMAIN users' = DOMAIN users
                      /\ \A u \in DOMAIN users :
                            users'[u] # users[u] => st.payload.current_user_id = Some(u)
                      /\ sessions' = sessions
                      /\ issuedRefresh' = issuedRefresh /\ issuedAccess' = issuedAccess
                 /\ st.payload.mode = "login" =>
                      \A u \in DOMAIN users : users'[u].google_sub = users[u].google_sub
            ELSE /\ users' = users
                 /\ sessions' = sessions
                 /\ issuedRefresh' = issuedRefresh /\ issuedAccess' = issuedAccess
                 /\ resp'.status = 400
                 /\ resp'.redirect = DefaultRedirect
      ]_vars

\* an expired link state, signed with the state key, was refused and the
\* redirect went to the default URL
C28_Witness ==
    /\ resp.op = "google_callback"
    /\ resp.status = 400
    /\ resp.detail = "OAuth state has expired"
    /\ resp.state \in IssuedStates
    /\ resp.state.payload.mode = "link"
    /\ resp.redirect = DefaultRedirect
    /\ \A u \in DOMAIN users : users[u].google_sub = None

\* ------------------------------------------- claims on concurrent refreshes
\* the requests that presented the token and returned a new token pair
Winners(refresh_token) ==
    {p \in ProcIds : /\ procs[p].op = "refresh"
                     /\ procs[p].req.token = refresh_token
                     /\ procs[p].pc = "done"
                     /\ procs[p].status = 200}

\* C29: of the refresh requests that present one refresh token, overlapping
\* or not, at most one returns a new token pair, so the token has at most one
\* successor session.
C29_OneRefreshWins ==
    \A t \in issuedRefresh :
        /\ Cardinality(Winners(t)) <= 1
        /\ Cardinality({s \in DOMAIN sessions :
                            /\ SessionUsable(sessions[s])
                            /\ \E p \in Winners(t) : procs[p].req.successor = Some(s)}) <= 1

\* --------------------------------------------- claims on concurrent unlinks
\* the unlink requests of the given kind that succeeded for the user
Unlinked(op, user_id) ==
    {p \in ProcIds : /\ procs[p].op = op
                     /\ procs[p].req.user_id = Some(user_id)
                     /\ procs[p].pc = "done"
                     /\ procs[p].status = 204}

\* C30: an unlink of Google and an unlink of Microsoft for a user whose only
\* identities are those two never both succeed, overlapping or not, and every
\* user keeps at least one identity.
C30_UnlinksKeepOneIdentity ==
    \A u \in DOMAIN users :
        /\ HasLocal(users[u]) \/ HasGoogle(users[u]) \/ HasMicrosoft(users[u])
        /\ ~HasLocal(users[u]) =>
              Unlinked("unlink_google", u) = {} \/ Unlinked("unlink_microsoft", u) = {}

\* ------------------------------------- claims on a reset racing a refresh
\* the password resets that have completed for the user
ResetsDone(user_id) ==
    {p \in ProcIds : /\ procs[p].op = "reset_password"
                     /\ procs[p].pc = "done"
                     /\ procs[p].status = 200
                     /\ procs[p].req.user_id = Some(user_id)}

\* C31: once a password reset of user U and a refresh of a token issued to U
\* before the reset have both completed, the session the refresh created is
\* not usable.
C31_ResetBeatsConcurrentRefresh ==
    \A q \in ProcIds :
        (/\ procs[q].op = "refresh"
         /\ procs[q].pc = "done"
         /\ procs[q].status = 200
         /\ procs[q].req.token \in preReset
         /\ ResetsDone(procs[q].req.user_id) # {})
        => ~SessionUsable(sessions[Val(procs[q].req.successor)])

\* ------------------------------------------------ claims on rotation order
\* the rotations that have committed the revocation of their presented session
PastRevocation ==
    {p \in ProcIds : /\ procs[p].op = "refresh"
                     /\ procs[p].pc \in {"create", "crashed_after_revoke", "done"}
                     /\ procs[p].passed}

\* C32: a rotation commits the revocation of the presented session before it
\* creates the replacement: in every state, also after a crash between the two
\* steps, the presented session is revoked once the rotation is past that
\* step, so it is never usable together with its replacement; and a rotation
\* of a token whose earlier rotation crashed between the steps is refused.
C32_RevokeBeforeReplace ==
    /\ [](\A p \in PastRevocation :
            /\ ~SessionUsable(sessions[Val(procs[p].req.sid)])
            /\ procs[p].req.successor # None =>
                 ~(/\ SessionUsable(sessions[Val(procs[p].req.sid)])
                   /\ SessionUsable(sessions[Val(procs[p].req.successor)])))
    /\ [][\A p \in ProcIds, t \in RaceRefreshTokens :
            (/\ RefreshBegin(p, t)
             /\ \E q \in ProcIds : /\ procs[q].pc = "crashed_after_revoke"
                                   /\ procs[q].req.token = t)
            => procs'[p].pc = "done" /\ procs'[p].status = 401]_vars

\* a rotation crashed after it revoked the presented session, and a later
\* rotation of the same, unexpired token was refused
C32_Witness ==
    \E p, q \in ProcIds :
        /\ procs[q].pc = "crashed_after_revoke"
        /\ procs[p].op = "refresh" /\ procs[p].pc = "done" /\ procs[p].status = 401
        /\ procs[p].req.token = procs[q].req.token
        /\ verify_refresh_token(procs[q].req.token)
        /\ nextSid = 1

\* ------------------------------------------------ claims on stored hashes
\* the issued refresh tokens whose hash the session row stores
TokensOf(session) ==
    {t \in issuedRefresh : _hash_token(t) = session.refresh_token_hash}

\* C33: in every committed state the hash a refresh session stores is the hash
\* of exactly one issued refresh token, which embeds the id of the session and
\* the id of its owner; no session stores the placeholder hash and no two
\* sessions store the same hash.
C33_StoredHashMatchesIssuedToken ==
    /\ \A s \in DOMAIN sessions :
          /\ Cardinality(TokensOf(sessions[s])) = 1
          /\ \A t \in TokensOf(sessions[s]) :
                t.payload.sessionId = s /\ t.payload.sub = sessions[s].user_id
          /\ sessions[s].refresh_token_hash # placeholder_hash
    /\ \A s, r \in DOMAIN sessions :
          s # r => sessions[s].refresh_token_hash # sessions[r].refresh_token_hash

\* two sessions are stored, the later one created by a rotation
C33_Witness ==
    /\ Cardinality(DOMAIN sessions) = 2
    /\ resp.op = "refresh" /\ resp.status = 200
    /\ \E s \in DOMAIN sessions : sessions[s].revoked_at # None

\* ---------------------------------------------------- claims on revoked_at
\* C34: once revoked_at of a session is set no step changes it (a logout or a
\* password reset over a revoked session leaves the value as it is), and a
\* session row disappears only together with its user.
C34_RevocationWriteOnce ==
    [][\A s \in DOMAIN sessions :
          /\ s \notin DOMAIN sessions' => sessions[s].user_id \notin DOMAIN users'
          /\ (s \in DOMAIN sessions' /\ sessions[s].revoked_at # None) =>
                sessions'[s].revoked_at = sessions[s].revoked_at]_vars

\* ----------------------------------------------- claims on session expiry
\* the sessions of the presented token that have reached expires_at
ExpiredSessionsOf(refresh_token) ==
    {s \in SessionsOf(sessions, refresh_token) : now >= sessions[s].expires_at}

\* C35: a rotation succeeds only on a session with revoked_at null and the
\* time strictly before expires_at; a token presented at or after expires_at
\* of its session is refused with 401 and the session is neither revoked nor
\* replaced.
C35_RotationNeedsUsableSession ==
    [][\A t \in issuedRefresh \cup {ForgedRefresh} :
          Refresh(t) =>
            /\ resp'.status = 200 => TokenUsable(t)
            /\ ExpiredSessionsOf(t) # {} =>
                 /\ resp'.status = 401
                 /\ sessions' = sessions]_vars

\* -------------------------------------------- claims on e-mail verification
VerificationRowsOf(token) ==
    {k \in DOMAIN verification_tokens :
        verification_tokens[k].token_hash = _hash_token(token)}

\* C36: verify_email with a known, unexpired token that is not yet verified
\* sets verified_at of the token and email_verified_at of its user in the same
\* step; with a known, unexpired token that is already verified it answers
\* "already verified" and changes nothing; with an unknown or expired token it
\* answers 400 and changes nothing.
C36_VerifyEmailIdempotent ==
    [][\A t \in VerificationPresented :
          VerifyEmail(t) =>
            LET rows == VerificationRowsOf(t)
                live == {k \in rows : now <= verification_tokens[k].expires_at}
            IN
            /\ (rows = {} \/ live = {}) =>
                  /\ resp'.status = 400
                  /\ users' = users /\ verification_tokens' = verification_tokens
            /\ \A k \in live :
                  IF verification_tokens[k].verified_at # None
                  THEN /\ resp'.status = 200
                       /\ resp'.detail = "Email is already verified"
                       /\ users' = users /\ verification_tokens' = verification_tokens
                  ELSE /\ resp'.status = 200
                       /\ resp'.detail = "Email verified successfully"
                       /\ verification_tokens'[k].verified_at = Some(now)
                       /\ LET uid == verification_tokens[k].user_id
                          IN uid \in DOMAIN users =>
                                users'[uid].email_verified_at = Some(now)
      ]_vars

\* a second call with a token that verified user 3 was answered "already verified"
C36_Witness ==
    /\ resp.op = "verify_email"
    /\ resp.detail = "Email is already verified"
    /\ 3 \in DOMAIN users /\ users[3].email_verified_at # None
    /\ \E k \in DOMAIN verification_tokens :
          verification_tokens[k].user_id = 3 /\ verification_tokens[k].verified_at # None

\* --------------------------------------------------- claims on the merge
\* the merges that passed their checks, whatever became of them
MergesAdmitted == {p \in ProcIds : procs[p].op = "merge_users" /\ procs[p].passed}

\* the row carries an identity block of the source, as the merge read it,
\* that the destination did not have when the merge read it
CarriesBlockOf(row, source_user, before) ==
    \/ HasLocal(source_user) /\ ~HasLocal(before)
         /\ row.local_username = source_user.local_username
    \/ HasGoogle(source_user) /\ ~HasGoogle(before)
         /\ row.google_sub = source_user.google_sub
    \/ HasMicrosoft(source_user) /\ ~HasMicrosoft(before)
         /\ row.ms_oid = source_user.ms_oid /\ row.ms_tid = source_user.ms_tid

\* C37: in no committed state, including the states left by a crash or by a
\* rejected commit in the middle of a merge, does the destination carry an
\* identity block copied from the source while the source still exists.
C37_MergeNeverHalfDone ==
    \A p \in MergesAdmitted :
        LET s == procs[p].req.source_user_id
            d == procs[p].req.destination_user_id
        IN (s \in DOMAIN users /\ d \in DOMAIN users) =>
              ~CarriesBlockOf(users[d], Val(procs[p].req.source), Val(procs[p].req.read))

\* ------------------------------------------ claims on the order of login checks
\* what login answers when no user has the identifier
UnknownIdentifierResponse ==
    Response("login", 401, "Invalid credentials") @@ [user |-> None, refresh |-> None]

\* the users with this identifier for whom the password is verified as correct
PasswordVerified(login_email, password) ==
    {u \in ByUsername(users, Normalize(login_email)) :
        /\ users[u].local_enabled
        /\ users[u].local_password_hash # None
        /\ verify_password(Val(users[u].local_password_hash), password)}

\* the unverified users with this identifier for whom the password is wrong
WrongPasswordUnverified(login_email, password) ==
    {u \in ByUsername(users, Normalize(login_email)) :
        /\ users[u].email_verified_at = None
        /\ users[u].local_enabled
        /\ users[u].local_password_hash # None
        /\ ~verify_password(Val(users[u].local_password_hash), password)}

\* C38: login answers Forbidden (email not verified) only when the supplied
\* password has been verified as correct; a wrong password for an unverified
\* account gets exactly the response of an unknown identifier.
C38_ForbiddenOnlyAfterPassword ==
    [][resp'.op = "login" =>
          \A e \in AccountLoginEmails, p \in LoginPasswords :
             Login(e, p) =>
                /\ resp'.status = 403 =>
                      \E u \in PasswordVerified(e, p) : users[u].email_verified_at = None
                /\ WrongPasswordUnverified(e, p) # {} => resp' = UnknownIdentifierResponse]_vars

\* a login was refused with Forbidden: an unverified account exists, and its
\* password is the one the clients present
C38_Witness ==
    /\ resp.op = "login" /\ resp.status = 403
    /\ \E e \in AccountLoginEmails :
          /\ WrongPasswordUnverified(e, "Wrong-Pass-789") # {}
          /\ \E u \in PasswordVerified(e, "Password123!") : users[u].email_verified_at = None

\* ------------------------------------------------ claims on the frame of refresh
\* C39: a refresh that succeeds revokes the session of the presented token,
\* adds exactly one session, for the same user, and leaves every other
\* session as it was; a refresh that is rejected changes no session, so that
\* the replay of a rotated token leaves its successor alone.
C39_RefreshTouchesOnlyItsSession ==
    [][resp'.op = "refresh" =>
          \A t \in issuedRefresh \cup {ForgedRefresh} :
             Refresh(t) =>
                IF resp'.status = 200
                THEN /\ DOMAIN sessions' \ DOMAIN sessions = {nextSid}
                     /\ DOMAIN sessions \subseteq DOMAIN sessions'
                     /\ SessionsOf(sessions, t) # {}
                     /\ \A s \in SessionsOf(sessions, t) :
                           /\ sessions'[nextSid].user_id = sessions[s].user_id
                           /\ sessions'[s] = [sessions[s] EXCEPT !.revoked_at = Some(now)]
                     /\ \A s \in DOMAIN sessions \ SessionsOf(sessions, t) : sessions'[s] = sessions[s]
                ELSE sessions' = sessions]_vars

\* a rotated token was replayed and refused while a session of its user,
\* opened by the rotation, is usable
C39_Witness ==
    /\ resp.op = "refresh" /\ resp.status = 401 /\ resp.reused
    /\ \E s \in DOMAIN sessions :
          /\ sessions[s].user_id = resp.token.payload.sub
          /\ SessionUsable(sessions[s])
          /\ s \notin SessionsOf(sessions, resp.token)

\* ------------------------------------------- claims on rejected admin updates
\* C40: an admin update answered Forbidden or BadRequest persists none of the
\* field changes of the request, whatever fields were assigned before the
\* refusal.
C40_RejectedUpdatePersistsNothing ==
    [][(resp'.op = "admin_update" /\ resp'.status \in {400, 403}) => users' = users]_vars

\* an update was refused for its role after its full name had been assigned,
\* and no user carries that name
C40_Witness ==
    /\ resp.op = "admin_update" /\ resp.status = 400 /\ resp.detail = "Invalid role"
    /\ \A u \in DOMAIN users : users[u].full_name # "Zed"

====
